---- MODULE Spec2Model ----
(***************************************************************************)
(* KrishiMitra: the routing graph (krishimitra.py), the domain agents      *)
(* (agents/*.py), the PDF parser (parser/parser.py) and the RAG prompt     *)
(* assembly (rag/rag.py), as state machines.                               *)
(*                                                                         *)
(* Text is modelled as a sequence of tokens.  A user query is a sequence   *)
(* of one-character tokens, so that lower-casing and substring search are  *)
(* computed; text produced by an external service is a one-token           *)
(* sequence; an f-string is the concatenation of its parts.                *)
(***************************************************************************)
EXTENDS Integers, Sequences, FiniteSets, TLC

-----------------------------------------------------------------------------
(* Bounds of the model                                                     *)

\* user inputs (graph invocations) per session
MaxTurns == 2
\* an LLM call reports <<0,0>> or <<i+1,i>> tokens, i in 1..MaxTokens
MaxTokens == 1

-----------------------------------------------------------------------------
(* Generic helpers                                                         *)

None == <<"<None>">>

Last(s) == s[Len(s)]

\* a dict assignment that keeps the value of a key already present
PutKeepFirst(f, k, v) ==
    [x \in (DOMAIN f) \cup {k} |-> IF x \in DOMAIN f THEN f[x] ELSE v]

\* d[k] = v on a dict
Put(f, k, v) == [x \in (DOMAIN f) \cup {k} |-> IF x = k THEN v ELSE f[x]]

\* Python's  x or 0  on an Optional[int] (None is <<>>, n is <<n>>)
OrZero(x) == IF x = <<>> THEN 0 ELSE x[1]

-----------------------------------------------------------------------------
(* Messages and the Session schema                                         *)

HumanMessage(c) == [type |-> "human", content |-> c]

AIMessage(c) == [type |-> "ai", content |-> c]

SystemMessage(c) == [type |-> "system", content |-> c]

\* agents.schemas.Messages (the time field is a wall-clock stamp, left out)
Messages(t, c) == [type |-> t, content |-> c]

\* a plausible slip: the two answers stored the other way round
QAPairSwapped(q, a1, a2, refs) ==
    [query |-> q, answer1 |-> a2, answer2 |-> a1, references |-> refs]

QAPair(q, a1, a2, refs) ==
    [query |-> q, answer1 |-> a1, answer2 |-> a2, references |-> refs]

TokenTracker ==
    [net_input_tokens |-> <<>>, net_output_tokens |-> <<>>, net_tokens |-> <<>>]

Session ==
    [ messages      |-> <<>>,
      token_tracker |-> TokenTracker,
      qa_pairs      |-> <<>>,
      chat_history  |-> <<>>,
      next          |-> "None",
      response      |-> None ]

-----------------------------------------------------------------------------
(* str.lower() and the substring test  w in s                              *)

UpperToLower ==
    "A" :> "a" @@ "B" :> "b" @@ "C" :> "c" @@ "D" :> "d" @@ "E" :> "e" @@
    "F" :> "f" @@ "G" :> "g" @@ "H" :> "h" @@ "I" :> "i" @@ "J" :> "j" @@
    "K" :> "k" @@ "L" :> "l" @@ "M" :> "m" @@ "N" :> "n" @@ "O" :> "o" @@
    "P" :> "p" @@ "Q" :> "q" @@ "R" :> "r" @@ "S" :> "s" @@ "T" :> "t" @@
    "U" :> "u" @@ "V" :> "v" @@ "W" :> "w" @@ "X" :> "x" @@ "Y" :> "y" @@
    "Z" :> "z"

LowerChar(ch) == IF ch \in DOMAIN UpperToLower THEN UpperToLower[ch] ELSE ch

Lower(s) == [i \in 1..Len(s) |-> LowerChar(s[i])]

\* w in s  for Python strings
IsSubstring(w, s) ==
    \E i \in 1..(Len(s) - Len(w) + 1) : SubSeq(s, i, i + Len(w) - 1) = w

\* any(w in s for w in words)
AnyIn(words, s) == \E k \in 1..Len(words) : IsSubstring(words[k], s)

-----------------------------------------------------------------------------
(* The keyword router, src/krishimitra.py                                  *)

CropWords ==
    << <<"c","r","o","p">>,
       <<"f","e","r","t","i","l","i","z","e","r">>,
       <<"y","i","e","l","d">>,
       <<"p","a","d","d","y">>,
       <<"w","h","e","a","t">>,
       <<"s","o","w","i","n","g">>,
       <<"h","a","r","v","e","s","t">> >>

MarketWords ==
    << <<"p","r","i","c","e">>,
       <<"m","a","r","k","e","t">>,
       <<"s","e","l","l">>,
       <<"m","s","p">>,
       <<"b","u","y">>,
       <<"m","a","n","d","i">>,
       <<"r","a","t","e","s">> >>

WeatherWords ==
    << <<"w","e","a","t","h","e","r">>,
       <<"r","a","i","n">>,
       <<"t","e","m","p","e","r","a","t","u","r","e">>,
       <<"f","o","r","e","c","a","s","t">>,
       <<"h","u","m","i","d","i","t","y">>,
       <<"w","i","n","d">> >>

PolicyWords ==
    << <<"p","o","l","i","c","y">>,
       <<"s","c","h","e","m","e">>,
       <<"s","u","b","s","i","d","y">>,
       <<"g","o","v","e","r","n","m","e","n","t">>,
       <<"p","m","-","k","i","s","a","n">>,
       <<"i","n","s","u","r","a","n","c","e">> >>

\* a plausible slip: the market test placed before the crop test
route_query_keyword_market_first(messages) ==
    IF messages = <<>>
    THEN [next |-> "PolicyAgent"]
    ELSE LET last == Lower(Last(messages).content)
         IN  [next |->
                IF AnyIn(MarketWords, last) THEN "MarketAgent"
                ELSE IF AnyIn(CropWords, last) THEN "CropResearch"
                ELSE IF AnyIn(WeatherWords, last) THEN "WeatherAgent"
                ELSE "PolicyAgent"]

route_query_keyword(messages) ==
    IF messages = <<>>
    THEN [next |-> "PolicyAgent"]
    ELSE LET last == Lower(Last(messages).content)
         IN  [next |->
                IF AnyIn(CropWords, last) THEN "CropResearch"
                ELSE IF AnyIn(MarketWords, last) THEN "MarketAgent"
                ELSE IF AnyIn(WeatherWords, last) THEN "WeatherAgent"
                ELSE IF AnyIn(PolicyWords, last) THEN "PolicyAgent"
                ELSE "PolicyAgent"]

-----------------------------------------------------------------------------
(* The LLM router, src/backend/krishimitra.py                              *)

\* An LLM reply is text with leading and trailing whitespace around a core
\* that neither starts nor ends with whitespace; str.strip() keeps the core.
Reply(lead, core, trail) == [lead |-> lead, core |-> core, trail |-> trail]

Strip(text) == text.core

\* the whole text, whitespace included, as one comparable value
Whole(text) ==
    IF text.lead = 0 /\ text.trail = 0 THEN text.core ELSE "<padded>"

AgentNames ==
    {"CropResearch", "MarketAgent", "WeatherAgent", "PolicyAgent", "FallbackAgent"}

\* plausible slips: the reply is used without the membership test, or
\* without being stripped
route_query_llm_unvalidated(messages, llm) ==
    IF messages = <<>>
    THEN [next |-> "FallbackAgent", llm_called |-> FALSE]
    ELSE [next |-> IF llm.raises THEN "FallbackAgent" ELSE Strip(llm.reply),
          llm_called |-> TRUE]

route_query_llm_unstripped(messages, llm) ==
    IF messages = <<>>
    THEN [next |-> "FallbackAgent", llm_called |-> FALSE]
    ELSE LET nxt == IF llm.raises THEN "FallbackAgent" ELSE Whole(llm.reply)
         IN  [next |-> IF nxt \notin AgentNames THEN "FallbackAgent" ELSE nxt,
              llm_called |-> TRUE]

\* msgs[-1].content.strip(), FallbackAgent on an exception, then the
\* membership test
route_query_llm(messages, llm) ==
    IF messages = <<>>
    THEN [next |-> "FallbackAgent", llm_called |-> FALSE]
    ELSE LET nxt == IF llm.raises THEN "FallbackAgent" ELSE Strip(llm.reply)
         IN  [next |-> IF nxt \notin AgentNames THEN "FallbackAgent" ELSE nxt,
              llm_called |-> TRUE]

-----------------------------------------------------------------------------
(* External services: what one call hands back                             *)

\* invoke_llm_langchain reports the usage metadata of the reply, or 0 and 0
\* when the reply carries none
TokenUsages == {<<0, 0>>} \cup {<<i + 1, i>> : i \in 1..MaxTokens}

LlmContents == {<<"ans1">>, <<"ans2">>}

LlmReplies ==
    {[content |-> c, input_tokens |-> u[1], output_tokens |-> u[2]] :
        c \in LlmContents, u \in TokenUsages}

\* the reply used where an earlier failure means the call is never made
NoReply == [content |-> None, input_tokens |-> 0, output_tokens |-> 0]

\* the 'result' text of a rag_query answer
RagResults == {<<"rag1">>, <<"rag2">>}

TavilyResults == {<<"tavily1">>}

\* a record of one call to a collaborator: which one, and the messages
\* (or query) handed to it
Call(op, input) == [op |-> op, input |-> input]

\* the outcome of running an agent: the session as the agent left it, the
\* collaborator calls in order, and the exception text (<<>>: it returned)
Return(st, calls) == [st |-> st, calls |-> calls, exc |-> <<>>]

Raise(st, calls, msg) == [st |-> st, calls |-> calls, exc |-> <<msg>>]

\* utils.chat.invoke_llm_langchain: the reply is appended to the list passed
invoke_llm_langchain(messages, reply) ==
    [messages      |-> Append(messages, AIMessage(reply.content)),
     input_tokens  |-> reply.input_tokens,
     output_tokens |-> reply.output_tokens]

\* json.dumps(safe_results, indent=2)
JsonDumps(results) == <<"json:">> \o results

\* str() of the dict rag_query returns
StrRag(rag_response) ==
    <<"{'query': ">> \o rag_response.query \o <<", 'result': ">>
        \o rag_response.result \o <<"}">>

-----------------------------------------------------------------------------
(* The retrieval pipeline as the agents run it:                            *)
(*   rag = RAG(state.pdf_path); index = rag.create_db();                   *)
(*   retriever = rag.create_retriever(index); rag.rag_query(query, ...)    *)
(* ext.fail names the step that raises, if any.  With guarded = TRUE the   *)
(* construction sits in  try ... except TypeError , whose handler builds   *)
(* the RAG again and calls create_retriever() without its index argument,  *)
(* which raises TypeError in turn.                                         *)

\* a plausible slip: the evidence is taken from a cache and the pipeline is
\* not run
RagPipelineSkipped(ext, query, guarded) ==
    [calls |-> <<>>, exc |-> <<>>,
     rag_response |-> [query |-> query, result |-> ext.rag]]

RagPipeline(ext, query, guarded) ==
    LET q  == <<HumanMessage(query)>>
        c1 == <<Call("RAG", <<>>)>>
        c2 == Append(c1, Call("create_db", <<>>))
        c3 == Append(c2, Call("create_retriever", <<>>))
        c4 == Append(c3, Call("rag_query", q))
    IN  IF ext.fail = "rag_type_error"
        THEN IF guarded
             THEN [calls |-> c1 \o <<Call("RAG", <<>>), Call("create_retriever", <<>>)>>,
                   exc |-> <<"TypeError">>, rag_response |-> None]
             ELSE [calls |-> c1, exc |-> <<"TypeError">>, rag_response |-> None]
        ELSE IF ext.fail = "rag_ctor"
        THEN [calls |-> c1, exc |-> <<"PDF file not found">>, rag_response |-> None]
        ELSE IF ext.fail = "create_db"
        THEN [calls |-> c2, exc |-> <<"index build failed">>, rag_response |-> None]
        ELSE IF ext.fail = "rag_query"
        THEN [calls |-> c4, exc |-> <<"rag_query failed">>, rag_response |-> None]
        ELSE [calls |-> c4, exc |-> <<>>,
              rag_response |-> [query |-> query, result |-> ext.rag]]

-----------------------------------------------------------------------------
(* Token tracker and qa_pairs updates shared by crop, market and policy    *)

\* a tracker that counts the draft call only
UpdateTokensDraftOnly(tt, in1, out1, in2, out2) ==
    LET ni == OrZero(tt.net_input_tokens) + in1
        no == OrZero(tt.net_output_tokens) + out1
    IN  [net_input_tokens |-> <<ni>>, net_output_tokens |-> <<no>>,
         net_tokens |-> <<ni + no>>]

UpdateTokens(tt, in1, out1, in2, out2) ==
    LET ni == OrZero(tt.net_input_tokens) + in1 + in2
        no == OrZero(tt.net_output_tokens) + out1 + out2
    IN  [net_input_tokens |-> <<ni>>, net_output_tokens |-> <<no>>,
         net_tokens |-> <<ni + no>>]

-----------------------------------------------------------------------------
(* agents/crop.py                                                          *)

CROP_SYS == <<"Crop_prompts.System_message">>

get_crop_data(state, ext) ==
    LET query == IF state.messages # <<>> THEN Last(state.messages).content
                 ELSE <<"Get crop data">>
        rag   == RagPipeline(ext, query, FALSE)
    IN  IF rag.exc # <<>> THEN [st |-> state, calls |-> rag.calls, exc |-> rag.exc]
        ELSE
        LET rag_response == rag.rag_response
            messages == <<SystemMessage(CROP_SYS), HumanMessage(query)>>
            c1 == Append(rag.calls, Call("llm", messages))
        IN  IF ext.fail = "llm1" THEN Raise(state, c1, "LLM call failed")
            ELSE
            LET llm1 == invoke_llm_langchain(messages, ext.draft)
                llm_content == Last(llm1.messages).content
                refine_messages ==
                    <<SystemMessage(CROP_SYS),
                      HumanMessage(<<"Write a proper response using RAG response: ">>
                                   \o StrRag(rag_response)
                                   \o <<" and LLM response: ">> \o llm_content)>>
                c2 == Append(c1, Call("llm", refine_messages))
            IN  IF ext.fail = "llm2" THEN Raise(state, c2, "LLM call failed")
                ELSE
                LET llm2 == invoke_llm_langchain(refine_messages, ext.final)
                    final_content == Last(llm2.messages).content
                IN  Return(
                      [state EXCEPT
                         !.token_tracker =
                             UpdateTokens(@, llm1.input_tokens, llm1.output_tokens,
                                          llm2.input_tokens, llm2.output_tokens),
                         !.qa_pairs = Put(@, query,
                             QAPair(query, final_content, None, <<StrRag(rag_response)>>)),
                         !.chat_history = Append(@, Messages("ai", final_content)),
                         !.response = final_content],
                      c2)

-----------------------------------------------------------------------------
(* backend/agents/market.py                                                *)

MARKET_SYS == <<"Market_prompts.System_message">>

get_market_data(state, ext) ==
    LET query == IF state.messages # <<>> THEN Last(state.messages).content
                 ELSE <<"Market analysis">>
        c0    == <<Call("tavily", <<HumanMessage(query)>>)>>
    IN  IF ext.fail = "tavily" THEN Raise(state, c0, "search failed")
        ELSE
        LET tavily_json == JsonDumps(ext.tavily)
            st1 == [state EXCEPT
                      !.chat_history = Append(@, Messages("search", tavily_json))]
            rag == RagPipeline(ext, query, TRUE)
            cr  == c0 \o rag.calls
        IN  IF rag.exc # <<>> THEN [st |-> st1, calls |-> cr, exc |-> rag.exc]
            ELSE
            LET rag_response == rag.rag_response
                st2 == [st1 EXCEPT
                          !.chat_history = Append(@, Messages("rag", StrRag(rag_response)))]
                messages ==
                    <<SystemMessage(MARKET_SYS),
                      HumanMessage(query \o <<"\n\nTavily results:\n">> \o tavily_json)>>
                c1 == Append(cr, Call("llm", messages))
            IN  IF ext.fail = "llm1" THEN Raise(st2, c1, "LLM call failed")
                ELSE
                LET llm1 == invoke_llm_langchain(messages, ext.draft)
                    llm_content == Last(llm1.messages).content
                    st3 == [st2 EXCEPT
                              !.chat_history = Append(@, Messages("ai_draft", llm_content))]
                    refine_messages ==
                        <<SystemMessage(MARKET_SYS),
                          HumanMessage(<<"Combine the evidence and produce a clear, India-specific market analysis.">>
                                       \o <<"Tavily search:\n">> \o tavily_json \o <<"\n\n">>)>>
                    c2 == Append(c1, Call("llm", refine_messages))
                IN  IF ext.fail = "llm2" THEN Raise(st3, c2, "LLM call failed")
                    ELSE
                    LET llm2 == invoke_llm_langchain(refine_messages, ext.final)
                        final_content == Last(llm2.messages).content
                    IN  Return(
                          [st3 EXCEPT
                             !.token_tracker =
                                 UpdateTokens(@, llm1.input_tokens, llm1.output_tokens,
                                              llm2.input_tokens, llm2.output_tokens),
                             !.qa_pairs = Put(@, query,
                                 QAPair(query, final_content, llm_content,
                                        <<StrRag(rag_response), tavily_json>>)),
                             !.messages = Append(@, AIMessage(final_content)),
                             !.chat_history = Append(@, Messages("ai", final_content))],
                          c2)

-----------------------------------------------------------------------------
(* agents/policy.py  (the nodes pass no topic)                             *)

POLICY_SYS == <<"Policy_prompts.System_message">>

get_policy_data(state, ext) ==
    LET user_query == IF state.messages # <<>> THEN Last(state.messages).content
                      ELSE <<"Policy query">>
        query == user_query
        rag   == RagPipeline(ext, query, TRUE)
    IN  IF rag.exc # <<>> THEN [st |-> state, calls |-> rag.calls, exc |-> rag.exc]
        ELSE
        LET rag_response == rag.rag_response
            st1 == [state EXCEPT
                      !.chat_history = Append(@, Messages("rag", StrRag(rag_response)))]
            draft_messages ==
                <<SystemMessage(POLICY_SYS),
                  HumanMessage(<<"User query: ">> \o user_query
                               \o <<"\nTopic (optional): N/A\n\n">>
                               \o <<"Using ONLY the following RAG evidence, draft a clear answer:\n">>
                               \o StrRag(rag_response))>>
            c1 == Append(rag.calls, Call("llm", draft_messages))
        IN  IF ext.fail = "llm1" THEN Raise(st1, c1, "LLM call failed")
            ELSE
            LET llm1 == invoke_llm_langchain(draft_messages, ext.draft)
                draft_content == Last(llm1.messages).content
                st2 == [st1 EXCEPT
                          !.chat_history = Append(@, Messages("ai_draft", draft_content))]
                refine_messages ==
                    <<SystemMessage(POLICY_SYS),
                      HumanMessage(<<"Refine the answer.\n\n">>
                                   \o <<"RAG evidence:\n">> \o StrRag(rag_response)
                                   \o <<"\n\nDraft:\n">> \o draft_content)>>
                c2 == Append(c1, Call("llm", refine_messages))
            IN  IF ext.fail = "llm2" THEN Raise(st2, c2, "LLM call failed")
                ELSE
                LET llm2 == invoke_llm_langchain(refine_messages, ext.final)
                    final_content == Last(llm2.messages).content
                IN  Return(
                      [st2 EXCEPT
                         !.token_tracker =
                             UpdateTokens(@, llm1.input_tokens, llm1.output_tokens,
                                          llm2.input_tokens, llm2.output_tokens),
                         !.qa_pairs = Put(@, query,
                             QAPair(query, final_content, draft_content,
                                    <<StrRag(rag_response)>>)),
                         !.messages = Append(@, AIMessage(final_content)),
                         !.chat_history = Append(@, Messages("ai", final_content))],
                      c2)

-----------------------------------------------------------------------------
(* agents/weather.py                                                       *)

\* what get_user_location hands back: a dict with an 'error' key, or a
\* location from GPS (no city, no region) or from the IP lookup
LocationInfos ==
    { [source |-> "none", has_error |-> TRUE,  error |-> <<"Failed to get location">>,
       city |-> <<>>, region |-> <<>>],
      [source |-> "gps",  has_error |-> FALSE, error |-> <<>>,
       city |-> <<>>, region |-> <<>>],
      [source |-> "ip",   has_error |-> FALSE, error |-> <<>>,
       city |-> <<"Pune">>, region |-> <<"Maharashtra">>],
      [source |-> "ip",   has_error |-> FALSE, error |-> <<>>,
       city |-> <<>>, region |-> <<"Maharashtra">>] }

StrLocation(location_info) ==
    <<"{'source': ", location_info.source, ", 'city': ">> \o location_info.city \o <<"}">>

get_weather_data(state, ext) ==
    LET user_query == IF state.messages # <<>> THEN Last(state.messages).content
                      ELSE <<"Weather report">>
        c0 == <<Call("get_user_location", <<>>)>>
    IN  IF ext.fail = "location" THEN Raise(state, c0, "KeyError")
        ELSE
        LET location_info == ext.location
        IN  IF location_info.has_error
            THEN LET final_content ==
                         <<"Could not determine your location: ">> \o location_info.error
                 IN  Return(
                       [state EXCEPT
                          !.messages = Append(@, AIMessage(final_content)),
                          !.chat_history = Append(@, Messages("ai", final_content))],
                       c0)
            ELSE
            LET c1 == Append(c0, Call("fetch_weather", <<>>))
                place_desc == IF location_info.city # <<>> THEN location_info.city
                              ELSE IF location_info.region # <<>> THEN location_info.region
                              ELSE <<"your area">>
                final_content ==
                    IF ext.fail = "fetch"
                    THEN <<"Failed to fetch weather data: ">> \o <<"HTTPError">>
                    ELSE <<"Weather report for ">> \o place_desc \o <<":\n">> \o ext.weather
            IN  Return(
                  [state EXCEPT
                     !.qa_pairs = Put(@, user_query,
                         QAPair(user_query, final_content, None,
                                <<StrLocation(location_info)>>)),
                     !.messages = Append(@, AIMessage(final_content)),
                     !.chat_history = Append(@, Messages("ai", final_content))],
                  c1)

-----------------------------------------------------------------------------
(* The agent nodes of the graph, krishimitra.py.  A node hands back the    *)
(* partial update {response, messages}; here also the agent's outcome.     *)

\* str(out) for the Session the agent returns: pydantic's repr, of which
\* the response and the last chat_history content are kept
StrSession(st) ==
    <<"Session(response=">> \o st.response \o <<", chat_history=[...">>
        \o (IF st.chat_history = <<>> THEN <<>> ELSE Last(st.chat_history).content)
        \o <<"])">>

\* a node that reports the bare exception text
NodeReturnBareError(name, r) ==
    LET out == IF r.exc = <<>> THEN r.st.response ELSE r.exc
    IN  [response |-> out,
         messages |-> r.st.messages \o <<AIMessage(out)>>,
         run      |-> r]

\* out = get_x_data(state)  /  except Exception as e: out = f"<name> error: {e}"
\* msgs = list(state.messages) + [AIMessage(content=str(out))]
NodeReturn(name, r) ==
    LET out == IF r.exc = <<>> THEN StrSession(r.st)
               ELSE <<name, " error: ">> \o r.exc
    IN  [response |-> out,
         messages |-> r.st.messages \o <<AIMessage(out)>>,
         run      |-> r]

crop_node(state, ext) == NodeReturn("CropResearch", get_crop_data(state, ext))

market_node(state, ext) == NodeReturn("MarketAgent", get_market_data(state, ext))

weather_node(state, ext) == NodeReturn("WeatherAgent", get_weather_data(state, ext))

policy_node(state, ext) == NodeReturn("PolicyAgent", get_policy_data(state, ext))

FALLBACK_SYS == <<"Answer in the indian context, be concise and clear.">>

\* backend/krishimitra.py only: the LLM is called on state.messages itself,
\* so invoke_llm_langchain appends its reply to the session's list
fallback_node(state, ext) ==
    LET st1 == [state EXCEPT !.messages = Append(@, SystemMessage(FALLBACK_SYS))]
        c1  == <<Call("llm", st1.messages)>>
    IN  IF ext.fail = "llm1"
        THEN LET out == <<"FallbackAgent", " error: ">> \o <<"LLM call failed">>
             IN  [response |-> out,
                  messages |-> st1.messages \o <<AIMessage(out)>>,
                  run      |-> Raise(st1, c1, "LLM call failed")]
        ELSE LET llm == invoke_llm_langchain(st1.messages, ext.final)
                 st2 == [st1 EXCEPT !.messages = llm.messages]
                 out == Last(llm.messages).content
             IN  [response |-> out,
                  messages |-> st2.messages \o <<AIMessage(out)>>,
                  run      |-> Return(st2, c1)]

-----------------------------------------------------------------------------
(* The compiled graph, KrishiMitra_pipeline                                *)

\* the mapping of add_conditional_edges, per pipeline
EdgeMap(v) ==
    IF v = "keyword"
    THEN [n \in {"CropResearch", "MarketAgent", "WeatherAgent", "PolicyAgent"} |-> n]
    ELSE [n \in {"CropResearch", "MarketAgent", "WeatherAgent", "PolicyAgent",
                 "FallbackAgent"} |-> n]

VARIABLES
    \* the routing graph and its session
    variant,        \* which pipeline: "keyword" (krishimitra.py) or "llm" (backend/)
    session,        \* the Session the graph runs on
    pc,             \* where the invocation stands: idle, ready, a node name, edge, END
    ran,            \* the nodes run so far in this invocation, in order
    result,         \* the update {response, messages} the agent node handed back
    route,          \* what the router did: LLM called or not, and its outcome
    run,            \* the agent run of this invocation: session before, outcome
    turns,          \* invocations started so far
    \* one call of the keyword router on its own
    rq_messages,    \* the messages of the session passed
    rq_return,      \* the update it returned
    \* PDFParser
    p_pc,           \* new, loop (inside parse), parsed, raised
    p_doc,          \* the pages of the opened document
    page_num,       \* the loop variable of parse, 0-based
    full_text,      \* the segments collected so far
    ocr_calls,      \* the pages (1-based) image_to_string was called on
    extracted_text, \* self.extracted_text
    has_parsed,     \* self.has_parsed
    \* RAG.rag_query
    rag_in,         \* the query and what the retriever returned
    rag_out,        \* the dict rag_query returned
    rag_llm,        \* the message lists handed to the LLM, in order
    \* backend/utils/location.py
    last_gps_location,  \* the module global: None or the dict last stored
    gps_calls,          \* the (lat, lon, accuracy) of the set_gps_location calls so far
    loc_return,         \* the outcome of the latest get_user_location call
    ip_lookups,         \* requests sent to the IP geolocation service so far
    \* utils/mapimg.py
    tile_in,  \* the arguments of the latest get_google_satellite_imagery call
    tile_out, \* what that call announced, built and downloaded
    \* backend/asr/asr.py: one call of an NLLB translate function
    nl_call,  \* the translate call in progress: function, retries, position
    nl_attempt,  \* the loop variable attempt, 0-based
    nl_log,  \* requests and sleeps of the call, in order
    nl_return, \* what the call returned
    \* backend/server.py
    sessions,  \* the store: user_id -> the Session object kept for it
    objects,  \* the Session objects made so far, by identity
    reqs,  \* the chat_dynamic requests so far, in order of arrival
    fs  \* the temp files of the working directory

gvars == <<variant, session, pc, ran, result, route, run, turns>>

rqvars == <<rq_messages, rq_return>>

pvars == <<p_pc, p_doc, page_num, full_text, ocr_calls, extracted_text, has_parsed>>

rvars == <<rag_in, rag_out, rag_llm>>

lvars == <<last_gps_location, gps_calls, loc_return, ip_lookups>>

tvars == <<tile_in, tile_out>>

nvars == <<nl_call, nl_attempt, nl_log, nl_return>>

svars == <<sessions, objects, reqs, fs>>

\* the variables of the components added after the four above
xvars == <<lvars, tvars, nvars, svars>>

vars == <<gvars, rqvars, pvars, rvars, xvars>>

\* the user queries of the model (the text typed, case kept)
Queries ==
    { <<"W","h","e","a","t">>, <<"m","s","p">>, <<"r","a","i","n">>, <<"h","i">> }

RouterReplies ==
    {Reply(0, n, 0) : n \in AgentNames}
        \cup {Reply(1, "MarketAgent", 1), Reply(0, "cropresearch", 0),
              Reply(0, "CropResearch agent", 0), Reply(1, "", 0)}

\* the routing LLM call: it raises, or it replies
RouterLlm ==
    {[raises |-> TRUE, reply |-> Reply(0, "", 0)]}
        \cup {[raises |-> FALSE, reply |-> r] : r \in RouterReplies}

\* what the collaborators of one agent run do
Ext(fail, tavily, rag, draft, final, location, weather) ==
    [fail |-> fail, tavily |-> tavily, rag |-> rag, draft |-> draft,
     final |-> final, location |-> location, weather |-> weather]

NoLocation == CHOOSE l \in LocationInfos : l.has_error

DraftReplies == {r \in LlmReplies : r.content = <<"ans1">>}

\* crop, market and policy: every step succeeds, or one step raises
LlmAgentExts(early) ==
    {Ext("none", t, r, d, f, NoLocation, None) :
        t \in TavilyResults, r \in RagResults, d \in DraftReplies, f \in LlmReplies}
    \cup {Ext(p, <<"tavily1">>, <<"rag1">>, NoReply, NoReply, NoLocation, None) :
        p \in early}
    \cup {Ext("llm1", <<"tavily1">>, r, NoReply, NoReply, NoLocation, None) :
        r \in RagResults}
    \cup {Ext("llm2", <<"tavily1">>, r, d, NoReply, NoLocation, None) :
        r \in RagResults, d \in DraftReplies}

RagFails == {"rag_type_error", "rag_ctor", "create_db", "rag_query"}

CropExts == LlmAgentExts(RagFails)

MarketExts == LlmAgentExts(RagFails \cup {"tavily"})

PolicyExts == LlmAgentExts(RagFails)

WeatherExts ==
    {Ext("location", <<>>, <<>>, NoReply, NoReply, NoLocation, None)}
    \cup {Ext(f, <<>>, <<>>, NoReply, NoReply, l, <<"31C">>) :
            f \in {"none", "fetch"}, l \in LocationInfos}

FallbackExts ==
    {Ext("llm1", <<>>, <<>>, NoReply, NoReply, NoLocation, None)}
    \cup {Ext("none", <<>>, <<>>, NoReply, f, NoLocation, None) : f \in LlmReplies}

NoRoute == [llm_called |-> FALSE, llm |-> [raises |-> FALSE, reply |-> Reply(0, "", 0)],
            messages |-> <<>>]

NoRun == [agent |-> "None", pre |-> Session, ext |-> Ext("none", <<>>, <<>>, NoReply, NoReply, NoLocation, None),
          st |-> Session, calls |-> <<>>, exc |-> <<>>]

NoResult == [response |-> None, messages |-> <<>>]

InitGraph ==
    /\ variant \in {"keyword", "llm"}
    /\ session = Session
    /\ pc = "idle"
    /\ ran = <<>>
    /\ result = NoResult
    /\ route = NoRoute
    /\ run = NoRun
    /\ turns = 0

\* run_chatbot / chat_dynamic: session.messages.append(HumanMessage(content=...))
UserInput(q) ==
    /\ pc = "idle"
    /\ turns < MaxTurns
    /\ session' = [session EXCEPT !.messages = Append(@, HumanMessage(q))]
    /\ pc' = "ready"
    /\ UNCHANGED <<variant, ran, result, route, run, turns>>

\* graph.invoke(session): START -> route_query.  chat_dynamic also invokes
\* the graph when the request carried no message.
Invoke ==
    /\ pc \in {"idle", "ready"}
    /\ turns < MaxTurns
    /\ turns' = turns + 1
    /\ pc' = "route_query"
    /\ ran' = <<>>
    /\ result' = NoResult
    /\ route' = NoRoute
    /\ run' = NoRun
    /\ UNCHANGED <<variant, session>>

RouteQueryKeyword ==
    /\ pc = "route_query"
    /\ variant = "keyword"
    /\ session' = [session EXCEPT !.next = route_query_keyword(session.messages).next]
    /\ route' = [NoRoute EXCEPT !.messages = session.messages]
    /\ ran' = Append(ran, "route_query")
    /\ pc' = "edge"
    /\ UNCHANGED <<variant, result, run, turns>>

RouteQueryLlm ==
    /\ pc = "route_query"
    /\ variant = "llm"
    /\ \E llm \in RouterLlm :
         LET r == route_query_llm(session.messages, llm)
         IN  /\ session' = [session EXCEPT !.next = r.next]
             /\ route' = [llm_called |-> r.llm_called,
                          llm |-> IF r.llm_called THEN llm ELSE NoRoute.llm,
                          messages |-> session.messages]
    /\ ran' = Append(ran, "route_query")
    /\ pc' = "edge"
    /\ UNCHANGED <<variant, result, run, turns>>

\* add_conditional_edges("route_query", lambda s: s.next, {...})
ConditionalEdge ==
    /\ pc = "edge"
    /\ session.next \in DOMAIN EdgeMap(variant)
    /\ pc' = EdgeMap(variant)[session.next]
    /\ UNCHANGED <<variant, session, ran, result, route, run, turns>>

\* one agent node: the node's whole body, the agent it calls included
RunNode(name, out, ext) ==
    /\ session' = out.run.st
    /\ result' = [response |-> out.response, messages |-> out.messages]
    /\ run' = [agent |-> name, pre |-> session, ext |-> ext, st |-> out.run.st,
               calls |-> out.run.calls, exc |-> out.run.exc]
    /\ ran' = Append(ran, name)
    /\ route' = NoRoute
    /\ pc' = "END"
    /\ UNCHANGED <<variant, turns>>

CropNode ==
    /\ pc = "CropResearch"
    /\ \E ext \in CropExts : RunNode("CropResearch", crop_node(session, ext), ext)

MarketNode ==
    /\ pc = "MarketAgent"
    /\ \E ext \in MarketExts : RunNode("MarketAgent", market_node(session, ext), ext)

WeatherNode ==
    /\ pc = "WeatherAgent"
    /\ \E ext \in WeatherExts : RunNode("WeatherAgent", weather_node(session, ext), ext)

PolicyNode ==
    /\ pc = "PolicyAgent"
    /\ \E ext \in PolicyExts : RunNode("PolicyAgent", policy_node(session, ext), ext)

FallbackNode ==
    /\ pc = "FallbackAgent"
    /\ \E ext \in FallbackExts : RunNode("FallbackAgent", fallback_node(session, ext), ext)

\* the invocation is over; the caller reads the result and waits for input
End ==
    /\ pc = "END"
    /\ pc' = "idle"
    /\ ran' = <<>>
    /\ result' = NoResult
    /\ run' = NoRun
    /\ UNCHANGED <<variant, session, route, turns>>

NextGraph ==
    \/ \E q \in Queries : UserInput(q)
    \/ Invoke
    \/ RouteQueryKeyword
    \/ RouteQueryLlm
    \/ ConditionalEdge
    \/ CropNode
    \/ MarketNode
    \/ WeatherNode
    \/ PolicyNode
    \/ FallbackNode
    \/ End

-----------------------------------------------------------------------------
(* The keyword router called on its own, over a range of message texts     *)

\* texts are built from at most MaxFrags of these fragments
MaxFrags == 3

Fragments ==
    { <<"c","r","o","p">>, <<"Y","i","e","l","d">>, <<"m","s","p">>,
      <<"S","E","L","L">>, <<"r","a","i","n">>, <<"p","o","l","i","c","y">>,
      <<"c","r">>, <<"o","p">>, <<" ">> }

RECURSIVE TextsOf(_)
TextsOf(n) ==
    IF n = 0 THEN {<<>>}
    ELSE LET shorter == TextsOf(n - 1)
         IN  shorter \cup {t \o f : t \in shorter, f \in Fragments}

RouterTexts == TextsOf(MaxFrags)

InitRouter ==
    /\ rq_messages = <<>>
    /\ rq_return = [next |-> "None"]

\* route_query(state) on a session with no message, or with the text as its
\* last message (after an earlier exchange or not); one call per behaviour,
\* the function keeps no state between calls
RouteCall ==
    /\ rq_return.next = "None"
    /\ \E t \in RouterTexts, earlier \in {<<>>, <<HumanMessage(<<"c","r","o","p">>), AIMessage(<<"ans1">>)>>} :
         \E msgs \in {<<>>, Append(earlier, HumanMessage(t))} :
           /\ rq_messages' = msgs
           /\ rq_return' = route_query_keyword(msgs)

NextRouter == RouteCall /\ UNCHANGED <<gvars, pvars, rvars, xvars>>

-----------------------------------------------------------------------------
(* parser/parser.py: PDFParser.parse                                       *)

\* pages per document
MaxPages == 2
\* whitespace characters before and after the text of a page
MaxWs == 1

\* if text_length < 50
OcrThreshold == 50

\* separator.join(parts): the parts with the separator between neighbours
RECURSIVE Join(_, _)
Join(parts, sep) ==
    IF Len(parts) <= 1 THEN parts
    ELSE <<parts[1], sep>> \o Join(Tail(parts), sep)

\* the text page.get_text() returns: lead whitespace characters, core
\* characters from the first to the last non-whitespace one, trail
\* whitespace characters (core = 0: whitespace only)
TextLen(text) == text.lead + text.core + text.trail

\* len(text.strip())
StripLen(text) == text.core

PageTexts ==
    {[lead |-> l, core |-> c, trail |-> t] :
        l \in 0..MaxWs, t \in 0..MaxWs,
        c \in {0, OcrThreshold - 1, OcrThreshold, OcrThreshold + 1}}

\* a page: its text layer (readable or not) and what OCR does on its image
Pages ==
    {[readable |-> TRUE, text |-> x, ocr |-> o] :
        x \in PageTexts, o \in {"ok", "raise"}}
    \cup {[readable |-> FALSE, text |-> [lead |-> 0, core |-> 0, trail |-> 0], ocr |-> "ok"]}

RECURSIVE DocsOf(_)
DocsOf(n) ==
    IF n = 0 THEN {<<>>}
    ELSE LET shorter == DocsOf(n - 1)
         IN  shorter \cup {Append(d, p) : d \in shorter, p \in Pages}

Docs == DocsOf(MaxPages)

\* the segments of full_text: the text layer of a page, the OCR text of a
\* page, or the placeholder naming a page number
DirectText(pn) == [kind |-> "direct", page |-> pn + 1]

OcrText(pn) == [kind |-> "ocr", page |-> pn + 1]

\* a plausible slip: the 0-based loop variable in the placeholder
OcrErrorPlaceholderZeroBased(pn) == [kind |-> "[OCR ERROR ON PAGE n]", page |-> pn]

\* f"[OCR ERROR ON PAGE {page_num+1}]"
OcrErrorPlaceholder(pn) == [kind |-> "[OCR ERROR ON PAGE n]", page |-> pn + 1]

BlankLine == [kind |-> "\n\n"]

\* a plausible slip: the length is taken without strip()
NeedsOcrUnstripped(text) == TextLen(text) < OcrThreshold

\* text_length = len(text.strip());  if text_length < 50
NeedsOcr(text) == StripLen(text) < OcrThreshold

InitParser ==
    /\ p_pc = "new"
    /\ p_doc = <<>>
    /\ page_num = 0
    /\ full_text = <<>>
    /\ ocr_calls = <<>>
    /\ extracted_text = <<>>
    /\ has_parsed = FALSE

\* doc = fitz.open(self.pdf_path); full_text = []
ParseOpen ==
    /\ p_pc = "new"
    /\ \E d \in Docs : p_doc' = d
    /\ page_num' = 0
    /\ full_text' = <<>>
    /\ ocr_calls' = <<>>
    /\ p_pc' = "loop"
    /\ UNCHANGED <<extracted_text, has_parsed>>

\* fitz.open raises: except Exception: raise
ParseOpenFails ==
    /\ p_pc = "new"
    /\ p_pc' = "raised"
    /\ UNCHANGED <<p_doc, page_num, full_text, ocr_calls, extracted_text, has_parsed>>

\* one iteration of  for page_num in range(total_pages)
ParsePage ==
    /\ p_pc = "loop"
    /\ page_num < Len(p_doc)
    /\ LET page == p_doc[page_num + 1]
       IN  IF ~page.readable
           THEN /\ p_pc' = "raised"
                /\ UNCHANGED <<page_num, full_text, ocr_calls>>
           ELSE /\ p_pc' = "loop"
                /\ page_num' = page_num + 1
                /\ IF NeedsOcr(page.text)
                   THEN /\ ocr_calls' = Append(ocr_calls, page_num + 1)
                        /\ full_text' = Append(full_text,
                              IF page.ocr = "ok" THEN OcrText(page_num)
                              ELSE OcrErrorPlaceholder(page_num))
                   ELSE /\ ocr_calls' = ocr_calls
                        /\ full_text' = Append(full_text, DirectText(page_num))
    /\ UNCHANGED <<p_doc, extracted_text, has_parsed>>

\* after the loop: self.extracted_text = "\n\n".join(full_text)
ParseFinish ==
    /\ p_pc = "loop"
    /\ page_num = Len(p_doc)
    /\ extracted_text' = Join(full_text, BlankLine)
    /\ has_parsed' = TRUE
    /\ p_pc' = "parsed"
    /\ UNCHANGED <<p_doc, page_num, full_text, ocr_calls>>

NextParser ==
    /\ \/ ParseOpen
       \/ ParseOpenFails
       \/ ParsePage
       \/ ParseFinish
    /\ UNCHANGED <<gvars, rqvars, rvars, xvars>>

-----------------------------------------------------------------------------
(* rag/rag.py: RAG.rag_query                                               *)

\* nodes the retriever hands back to one query (similarity_top_k is 5 in
\* create_retriever; the retriever may return fewer)
MaxRetrieved == 3

\* a retrieved node: its text and its metadata, which may lack the keys
RagNodes ==
    { [text |-> <<"chunk A">>, metadata |-> [source |-> <<"text">>, doc_id |-> <<"d1">>]],
      [text |-> <<"chunk B">>, metadata |-> [source |-> <<"PDF">>, doc_id |-> <<"d2">>]],
      [text |-> <<"chunk C">>, metadata |-> [source |-> <<>>, doc_id |-> <<>>]] }

RECURSIVE RetrievalsOf(_)
RetrievalsOf(n) ==
    IF n = 0 THEN {<<>>}
    ELSE LET shorter == RetrievalsOf(n - 1)
         IN  shorter \cup {Append(r, x) : r \in shorter, x \in RagNodes}

Retrievals == RetrievalsOf(MaxRetrieved)

RagQueries == {<<"m","s","p">>, <<"h","i">>}

\* metadata.get(key, "unknown"): <<>> stands for a missing key
GetOrUnknown(value) == IF value = <<>> THEN "unknown" ELSE value[1]

\* str.capitalize(): first character upper case, the rest lower case
Capitalize(s) ==
    CASE s = "text" -> "Text"
      [] s = "PDF" -> "Pdf"
      [] s = "unknown" -> "Unknown"
      [] OTHER -> s

\* a plausible slip: the 0-based index of enumerate in the label
ContextPartZeroBased(i, node) ==
    [label    |-> "[Document n]", n |-> i,
     source   |-> Capitalize(GetOrUnknown(node.metadata.source)),
     doc_id   |-> GetOrUnknown(node.metadata.doc_id),
     text     |-> node.text]

\* f"[Document {i+1}] {source_type.capitalize()} {doc_id}: {node.text}"
\* for the i-th node of enumerate (i from 0)
ContextPart(i, node) ==
    [label    |-> "[Document n]", n |-> i + 1,
     source   |-> Capitalize(GetOrUnknown(node.metadata.source)),
     doc_id   |-> GetOrUnknown(node.metadata.doc_id),
     text     |-> node.text]

SourceDocument(node) == [page_content |-> node.text, metadata |-> node.metadata]

\* self.prompts["human_message"].format(query_text=..., context=...)
RagPrompt(query_text, context) ==
    [template |-> "RAG_prompts.human_message", query_text |-> query_text,
     context |-> context]

\* rag_query with the retriever's answer and the LLM's reply given
rag_query(query_text, retrieval_result, reply) ==
    LET context_parts ==
            [k \in 1..Len(retrieval_result) |-> ContextPart(k - 1, retrieval_result[k])]
        source_documents ==
            [k \in 1..Len(retrieval_result) |-> SourceDocument(retrieval_result[k])]
        context  == Join(context_parts, BlankLine)
        messages == <<HumanMessage(RagPrompt(query_text, context))>>
        llm      == invoke_llm_langchain(messages, reply)
    IN  [sent   |-> messages,
         return |-> [query |-> query_text,
                     result |-> Last(llm.messages).content,
                     source_documents |-> source_documents,
                     input_tokens |-> llm.input_tokens,
                     output_tokens |-> llm.output_tokens]]

NoRagIn == [query |-> <<>>, retrieved |-> <<>>, outcome |-> "none"]

NoRagOut == [query |-> <<>>, result |-> None, source_documents |-> <<>>,
             input_tokens |-> 0, output_tokens |-> 0]

InitRag ==
    /\ rag_in = NoRagIn
    /\ rag_out = NoRagOut
    /\ rag_llm = <<>>

\* a call that returns
RagQuery ==
    /\ rag_in.outcome = "none"
    /\ \E q \in RagQueries, nodes \in Retrievals, reply \in LlmReplies :
      LET r == rag_query(q, nodes, reply)
      IN  /\ rag_in' = [query |-> q, retrieved |-> nodes, outcome |-> "returned"]
          /\ rag_out' = r.return
          /\ rag_llm' = <<r.sent>>

\* retriever.retrieve raises: nothing is assembled, no LLM call
RagQueryRetrieveFails ==
    /\ rag_in.outcome = "none"
    /\ \E q \in RagQueries :
      /\ rag_in' = [query |-> q, retrieved |-> <<>>, outcome |-> "retrieve raised"]
      /\ rag_out' = NoRagOut
      /\ rag_llm' = <<>>

\* the LLM call raises after the prompt was assembled and sent
RagQueryLlmFails ==
    /\ rag_in.outcome = "none"
    /\ \E q \in RagQueries, nodes \in Retrievals :
      /\ rag_in' = [query |-> q, retrieved |-> nodes, outcome |-> "llm raised"]
      /\ rag_out' = NoRagOut
      /\ rag_llm' = <<rag_query(q, nodes, NoReply).sent>>

NextRag ==
    /\ \/ RagQuery
       \/ RagQueryRetrieveFails
       \/ RagQueryLlmFails
    /\ UNCHANGED <<gvars, rqvars, pvars, xvars>>

-----------------------------------------------------------------------------
(* backend/utils/location.py: the GPS location the phone or browser last   *)
(* sent, and the lookup that prefers it over the IP-based location         *)

MaxGpsSets == 2

MaxIpLookups == 2

\* the values a coordinate takes here; 0 is on the equator / prime meridian
Coords == {0, 18}

\* the accuracy argument, None by default
Accuracies == {<<>>, <<5>>}

\* what the request to http://ip-api.com/json/ does: the request raises
\* (requests.RequestException, raise_for_status included), or it answers
\* with a JSON object: status success and the fields, a status other than
\* success, or an object without the 'status' key
IpAnswers ==
    { [kind |-> "request_exception", data |-> [message |-> "timeout"]],
      [kind |-> "json", data |-> [status |-> "success", lat |-> 18, lon |-> 73,
                                  city |-> "Pune", regionName |-> "Maharashtra",
                                  country |-> "India", timezone |-> "Asia/Kolkata"]],
      [kind |-> "json", data |-> [status |-> "fail", message |-> "reserved range"]],
      [kind |-> "json", data |-> [message |-> "rate limited"]] }

\* truth value of  last_gps_location  in  if last_gps_location:  - None is
\* false, a dict is true when it has at least one key
TruthyLatitude(opt) == opt # <<>> /\ opt[1].latitude # 0

Truthy(opt) == opt # <<>> /\ DOMAIN opt[1] # {}

\* set_gps_location(lat, lon, accuracy): the new value of the global
set_gps_location(lat, lon, accuracy) ==
    <<[latitude |-> lat, longitude |-> lon, accuracy |-> accuracy]>>

\* get_user_location(): what it returns or raises, and whether it sent the
\* request to the IP service
get_user_location(gps, ip) ==
    IF Truthy(gps)
    THEN [ret |-> [source |-> "gps", latitude |-> gps[1].latitude,
                   longitude |-> gps[1].longitude, accuracy |-> gps[1].accuracy],
          exc |-> <<>>, ip_lookup |-> FALSE]
    ELSE IF ip.kind = "request_exception"
    THEN [ret |-> [error |-> <<"Request failed: ", ip.data.message>>],
          exc |-> <<>>, ip_lookup |-> TRUE]
    ELSE IF "status" \notin DOMAIN ip.data
    THEN [ret |-> [none |-> TRUE], exc |-> <<"KeyError: 'status'">>, ip_lookup |-> TRUE]
    ELSE IF ip.data.status = "success"
    THEN [ret |-> [source |-> "ip", latitude |-> ip.data.lat, longitude |-> ip.data.lon,
                   city |-> ip.data.city, region |-> ip.data.regionName,
                   country |-> ip.data.country, timezone |-> ip.data.timezone],
          exc |-> <<>>, ip_lookup |-> TRUE]
    ELSE [ret |-> [error |-> <<"Failed to get location">>],
          exc |-> <<>>, ip_lookup |-> TRUE]

NoLocReturn == [called |-> FALSE]

InitLocation ==
    /\ last_gps_location = <<>>
    /\ gps_calls = <<>>
    /\ loc_return = NoLocReturn
    /\ ip_lookups = 0

SetGpsLocation ==
    /\ Len(gps_calls) < MaxGpsSets
    /\ \E lat \in Coords, lon \in Coords, accuracy \in Accuracies :
         /\ last_gps_location' = set_gps_location(lat, lon, accuracy)
         /\ gps_calls' = Append(gps_calls, <<lat, lon, accuracy>>)
    /\ UNCHANGED <<loc_return, ip_lookups>>

\* the call number and the set_gps_location calls made before it are kept
\* with the outcome
GetUserLocation ==
    /\ ip_lookups < MaxIpLookups
    /\ \E ip \in IpAnswers :
         LET r == get_user_location(last_gps_location, ip)
         IN  /\ loc_return' = [called |-> TRUE, ret |-> r.ret, exc |-> r.exc,
                               ip_lookup |-> r.ip_lookup, gps_before |-> gps_calls,
                               ip |-> ip]
             /\ ip_lookups' = ip_lookups + (IF r.ip_lookup THEN 1 ELSE 0)
    /\ UNCHANGED <<last_gps_location, gps_calls>>

NextLocation ==
    /\ \/ SetGpsLocation
       \/ GetUserLocation
    /\ UNCHANGED <<gvars, rqvars, pvars, rvars, tvars, nvars, svars>>

-----------------------------------------------------------------------------
(* utils/mapimg.py: the grid of satellite tiles around a location          *)

MaxGrid == 5

Latitudes == {0, 18, 60}

Longitudes == {-120, 0, 73}

Zooms == {3, 4}

MercatorScale == 1024

\* (1 - asinh(tan(lat)) / pi) / 2, in units of 1/1024 and rounded down, for
\* the latitudes above; exact for int(... * 2 ** zoom) up to zoom 10
MercatorY(lat_deg) ==
    CASE lat_deg = 0  -> 512
      [] lat_deg = 18 -> 459
      [] lat_deg = 60 -> 297

\* location.deg2num: int() of a non-negative value rounds down
deg2num(lat_deg, lon_deg, zoom) ==
    LET n == 2 ^ zoom
    IN  [xtile |-> ((lon_deg + 180) * n) \div 360,
         ytile |-> (MercatorY(lat_deg) * n) \div MercatorScale]

\* Python's range(a, b), as a sequence
range(a, b) == [i \in 1..(IF b > a THEN b - a ELSE 0) |-> a + i - 1]

\* range(-tile_size//2, tile_size//2 + 1): the unary minus is applied
\* before the floor division
GridOffsets(tile_size) == range((-tile_size) \div 2, tile_size \div 2 + 1)

\* get_google_satellite_tile_urls(lat, lon, zoom, tile_size): the list
\* tile_urls['google_satellite']['tiles'], dx in the outer loop
get_google_satellite_tile_urls(lat, lon, zoom, tile_size) ==
    LET center == deg2num(lat, lon, zoom)
        offs   == GridOffsets(tile_size)
        m      == Len(offs)
    IN  [k \in 1..(m * m) |->
            LET dx == offs[((k - 1) \div m) + 1]
                dy == offs[((k - 1) % m) + 1]
                x  == center.xtile + dx
                y  == center.ytile + dy
            IN  [url |-> <<"https://mt1.google.com/vt/lyrs=s&x=", x, "&y=", y, "&z=", zoom>>,
                 x |-> x, y |-> y, pos |-> <<dx, dy>>]]

NoTileIn == [called |-> FALSE]

NoTileOut == [announced |-> 0, tiles |-> <<>>, submitted |-> 0,
              successful_downloads |-> 0, image |-> "None"]

InitTiles ==
    /\ tile_in = NoTileIn
    /\ tile_out = NoTileOut

\* get_google_satellite_imagery(lat, lon, zoom, tile_grid): the log line
\* announcing tile_grid**2 tiles, one download_tile per tile of the list
\* (the network is up, or every download fails), then the stitching
GetGoogleSatelliteImagery ==
    /\ ~tile_in.called
    /\ \E lat \in Latitudes, lon \in Longitudes, zoom \in Zooms,
          tile_grid \in 1..MaxGrid, network \in {"up", "down"} :
         LET tiles == get_google_satellite_tile_urls(lat, lon, zoom, tile_grid)
             successful_downloads == IF network = "up" THEN Len(tiles) ELSE 0
         IN  /\ tile_in' = [called |-> TRUE, lat |-> lat, lon |-> lon, zoom |-> zoom,
                            tile_grid |-> tile_grid, network |-> network]
             /\ tile_out' = [announced |-> tile_grid ^ 2,
                             tiles |-> tiles,
                             submitted |-> Len(tiles),
                             successful_downloads |-> successful_downloads,
                             image |-> IF successful_downloads > 0 THEN "stitched"
                                       ELSE "None"]

NextTiles ==
    /\ GetGoogleSatelliteImagery
    /\ UNCHANGED <<gvars, rqvars, pvars, rvars, lvars, nvars, svars>>

-----------------------------------------------------------------------------
(* backend/asr/asr.py: translate_text_nllb_api_indic2en and                *)
(* translate_text_nllb_api, which share one retry loop                     *)

MaxRetries == 2

\* time.sleep(1.5 * (attempt + 1)), in tenths of a second
SleepTenths == 15

TranslateFunctions == {"translate_text_nllb_api_indic2en", "translate_text_nllb_api"}

\* what one GET to the translator does: the request raises (timeout,
\* connection, HTTP status), the body is not a JSON object, or it is a JSON
\* object that may carry the translation under 'text' or under 'result'
NllbAnswers ==
    { [kind |-> "raises", data |-> [none |-> TRUE]],
      [kind |-> "not_a_dict", data |-> [none |-> TRUE]],
      [kind |-> "json", data |-> [text |-> Reply(1, "namaste", 1)]],
      [kind |-> "json", data |-> [text |-> Reply(1, "", 0)]],
      [kind |-> "json", data |-> [text |-> Reply(0, "", 0), result |-> Reply(0, "kisan", 1)]],
      [kind |-> "json", data |-> [detail |-> Reply(0, "busy", 0)]] }

\* data.get(key), then Python's  or : a missing key and '' are both false
GetOr(data, key, default) ==
    IF key \in DOMAIN data /\ Whole(data[key]) # "" THEN data[key] ELSE default

\* out = data.get("text") or data.get("result") or "";  (out or "").strip()
NllbText(data) == Strip(GetOr(data, "text", GetOr(data, "result", Reply(0, "", 0))))

\* a loop that sleeps after the last failed attempt as well
ShouldRetryAlways(attempt, retries) == attempt <= retries

\* if attempt < retries: sleep and continue
ShouldRetry(attempt, retries) == attempt < retries

NoNllbCall == [fn |-> "None", retries |-> 0, pc |-> "idle"]

InitNllb ==
    /\ nl_call = NoNllbCall
    /\ nl_attempt = 0
    /\ nl_log = <<>>
    /\ nl_return = None

\* the call is made; the loop  for attempt in range(retries + 1)  begins
NllbCall ==
    /\ nl_call.pc = "idle"
    /\ \E fn \in TranslateFunctions, retries \in 0..MaxRetries :
         nl_call' = [fn |-> fn, retries |-> retries, pc |-> "loop"]
    /\ nl_attempt' = 0
    /\ UNCHANGED <<nl_log, nl_return>>

\* one iteration: the request, then return, or sleep and continue, or
\* print the error and return ''
NllbAttempt ==
    /\ nl_call.pc = "loop"
    /\ nl_attempt < nl_call.retries + 1
    /\ \E answer \in NllbAnswers :
         IF answer.kind = "json"
         THEN /\ nl_log' = Append(nl_log, [ev |-> "request", ok |-> TRUE, tenths |-> 0])
              /\ nl_return' = <<NllbText(answer.data)>>
              /\ nl_call' = [nl_call EXCEPT !.pc = "returned"]
              /\ UNCHANGED nl_attempt
         ELSE IF ShouldRetry(nl_attempt, nl_call.retries)
         THEN /\ nl_log' = nl_log \o
                    <<[ev |-> "request", ok |-> FALSE, tenths |-> 0],
                      [ev |-> "sleep", ok |-> FALSE,
                       tenths |-> SleepTenths * (nl_attempt + 1)]>>
              /\ nl_attempt' = nl_attempt + 1
              /\ UNCHANGED <<nl_call, nl_return>>
         ELSE /\ nl_log' = Append(nl_log, [ev |-> "request", ok |-> FALSE, tenths |-> 0])
              /\ nl_return' = <<"">>
              /\ nl_call' = [nl_call EXCEPT !.pc = "returned"]
              /\ UNCHANGED nl_attempt

NextNllb ==
    /\ \/ NllbCall
       \/ NllbAttempt
    /\ UNCHANGED <<gvars, rqvars, pvars, rvars, lvars, tvars, svars>>

-----------------------------------------------------------------------------
(* backend/server.py: the session store and the /chat_dynamic endpoint.    *)
(* The handler is a coroutine: it gives up the event loop only at          *)
(* await file.read(), so a request with a file runs in two steps and the   *)
(* steps of requests in flight interleave there.                           *)

MaxRequests == 2

Users == {"u1", "u2"}

\* the message form field: None, or the text typed
ReqMessages == {None, <<"m","s","p">>, <<"h","i">>}

\* the bytes of an upload
Uploads == {<<"a1">>, <<"b1", "b2">>}

Filenames == {"clip"}

NoUpload == [content_type |-> "none", filename |-> "", bytes |-> <<>>]

\* the file form field: None, or an upload with its content type
ReqFiles ==
    {NoUpload}
        \cup {[content_type |-> ct, filename |-> fn, bytes |-> b] :
                ct \in {"image/png", "audio/wav"}, fn \in Filenames, b \in Uploads}

\* a handler that never takes the image branch
IsImageNever(file) == FALSE

\* file and file.content_type.startswith("image")
IsImage(file) == file # NoUpload /\ file.content_type \in {"image/png"}

\* file and file.content_type.startswith("audio")
IsAudio(file) == file # NoUpload /\ file.content_type \in {"audio/wav"}

\* f"temp_{user_id}_{file.filename}"
TempPath(user_id, file) == <<"temp_", user_id, "_", file.filename>>

TempPaths == {TempPath(u, f) : u \in Users, f \in ReqFiles \ {NoUpload}}

\* The working directory: dir maps a path to its inode (<<>>: no such
\* file), inodes holds the content of every inode ever created.
\* open(path, "wb"): creates the file, or truncates the one that is there
FsOpen(files, path) ==
    IF files.dir[path] = <<>>
    THEN [fs |-> [dir    |-> [files.dir EXCEPT ![path] = <<Len(files.inodes) + 1>>],
                  inodes |-> Append(files.inodes, <<>>)],
          fd |-> Len(files.inodes) + 1]
    ELSE [fs |-> [files EXCEPT !.inodes[files.dir[path][1]] = <<>>],
          fd |-> files.dir[path][1]]

\* f.write(data) at offset 0 of a descriptor opened on the inode, then close:
\* what another descriptor wrote beyond len(data) stays
FsWrite(files, fd, data) ==
    [files EXCEPT !.inodes[fd] = data \o SubSeq(@, Len(data) + 1, Len(@))]

\* open(path, "rb").read(): the content, or FileNotFoundError
FsRead(files, path) ==
    IF files.dir[path] = <<>> THEN [exc |-> <<"FileNotFoundError">>, data |-> <<>>]
    ELSE [exc |-> <<>>, data |-> files.inodes[files.dir[path][1]]]

\* os.remove(path): unlinks the name; the inode stays for open descriptors
FsRemove(files, path) ==
    IF files.dir[path] = <<>> THEN [exc |-> <<"FileNotFoundError">>, fs |-> files]
    ELSE [exc |-> <<>>, fs |-> [files EXCEPT !.dir[path] = <<>>]]

\* a store that makes a new Session for every request
CreateAlways(store, objs, user_id) ==
    [store   |-> [u \in DOMAIN store \cup {user_id} |->
                     IF u = user_id THEN Len(objs) + 1 ELSE store[u]],
     objects |-> Append(objs, Session),
     session |-> Len(objs) + 1,
     created |-> TRUE]

\* if user_id not in sessions: session = Session(); sessions[user_id] = session
\* else: session = sessions[user_id]
\* (a Session is an object on the heap; the store holds references)
GetOrCreate(store, objs, user_id) ==
    IF user_id \notin DOMAIN store
    THEN [store   |-> [u \in DOMAIN store \cup {user_id} |->
                          IF u = user_id THEN Len(objs) + 1 ELSE store[u]],
          objects |-> Append(objs, Session),
          session |-> Len(objs) + 1,
          created |-> TRUE]
    ELSE [store |-> store, objects |-> objs, session |-> store[user_id],
          created |-> FALSE]

\* utils/vision.ask_vlm(img_path, fixed_prompt): reads the image file, posts
\* it, and returns the answer of the JSON reply
VlmOutcomes == {"answer", "http_error"}

ask_vlm(files, image_path, outcome) ==
    LET file == FsRead(files, image_path)
    IN  IF file.exc # <<>> THEN [exc |-> file.exc, read |-> <<>>, answer |-> Reply(0, "", 0)]
        ELSE IF outcome = "http_error"
        THEN [exc |-> <<"HTTPError">>, read |-> <<file.data>>, answer |-> Reply(0, "", 0)]
        ELSE [exc |-> <<>>, read |-> <<file.data>>, answer |-> Reply(1, "crop: wheat", 1)]

\* what the transcriber and the Indic -> English step make of the audio:
\* Hindi speech, English speech, or nothing intelligible
Transcribe(data) ==
    IF data = <<"a1">>
    THEN [english_text |-> <<"r","a","i","n">>, detected_lang |-> "hi"]
    ELSE IF data = <<"b1", "b2">>
    THEN [english_text |-> <<"m","s","p">>, detected_lang |-> "en"]
    ELSE [english_text |-> <<>>, detected_lang |-> "unknown"]

\* asr.audio_to_english_transcript(audio_path): the transcriber reads the
\* file, or raises when it is not there
audio_to_english_transcript(files, audio_path) ==
    LET file == FsRead(files, audio_path)
        t    == Transcribe(file.data)
    IN  IF file.exc # <<>>
        THEN [exc |-> file.exc, read |-> <<>>, english_text |-> <<>>,
              detected_lang |-> "unknown"]
        ELSE [exc |-> <<>>, read |-> <<file.data>>,
              english_text |-> t.english_text, detected_lang |-> t.detected_lang]

\* asr.english_to_original_language(ai, lang): '' when every NLLB attempt
\* fails
NllbStates == {"up", "down"}

english_to_original_language(english_text, target_lang_code, nllb) ==
    IF english_text = <<>> THEN <<>>
    ELSE IF target_lang_code \in {"en", "unknown"} THEN english_text
    ELSE IF nllb = "down" THEN <<>>
    ELSE <<target_lang_code, ":">> \o english_text

\* the routing reply and the collaborators' outcomes of one graph.invoke
ServerRouterLlm ==
    {[raises |-> TRUE, reply |-> Reply(0, "", 0)],
     [raises |-> FALSE, reply |-> Reply(0, "MarketAgent", 0)],
     [raises |-> FALSE, reply |-> Reply(0, "WeatherAgent", 1)]}

ServerExts ==
    {Ext("none", <<"tavily1">>, <<"rag1">>,
         [content |-> <<"ans1">>, input_tokens |-> 2, output_tokens |-> 1],
         [content |-> <<"ans2">>, input_tokens |-> 2, output_tokens |-> 1],
         CHOOSE l \in LocationInfos : l.city # <<>>, <<"31C">>),
     Ext("llm1", <<"tavily1">>, <<"rag1">>, NoReply, NoReply, NoLocation, None)}

\* result = graph.invoke(session); result["response"] is the reply
InvokeOut(out) == [st |-> out.run.st, response |-> out.response]

\* the conditional edges after route_query: lambda s: s.next picks the node,
\* and the agent works on the session object itself
Dispatch(s1, ext) ==
    InvokeOut(CASE s1.next = "CropResearch" -> crop_node(s1, ext)
                [] s1.next = "MarketAgent"  -> market_node(s1, ext)
                [] s1.next = "WeatherAgent" -> weather_node(s1, ext)
                [] s1.next = "PolicyAgent"  -> policy_node(s1, ext)
                [] OTHER                    -> fallback_node(s1, ext))

\* route_query returns {"next": ...}, which the graph writes into the state
SetNext(s, rt) == [s EXCEPT !.next = rt.next]

\* graph.invoke(session): route_query, then the node the edge map gives
GraphInvoke(s, llm, ext) ==
    Dispatch(SetNext(s, route_query_llm(s.messages, llm)), ext)

\* if message: ... session.messages.append(HumanMessage(content=refined_message))
\* (the refine call's reply is discarded: refined_message = message)
\* result = graph.invoke(session); the reply is translated back when the
\* audio was not English; chat_history lists session.messages, every
\* message that is not human as 'ai'.  The regex and JSON reformatting of
\* the reply text is left out.
TextAndGraph(s, message, original_language, llm, ext, nllb) ==
    LET truthy == message # None /\ message # <<>>
        s1 == IF truthy THEN [s EXCEPT !.messages = Append(@, HumanMessage(message))]
              ELSE s
        gi == GraphInvoke(s1, llm, ext)
        ai == IF original_language # "en"
              THEN english_to_original_language(gi.response, original_language, nllb)
              ELSE gi.response
    IN  [session      |-> gi.st,
         appended     |-> IF truthy THEN <<message>> ELSE <<>>,
         added        |-> SubSeq(gi.st.messages, Len(s.messages) + 1, Len(gi.st.messages)),
         response     |-> ai,
         chat_history |-> [k \in 1..Len(gi.st.messages) |->
                             [type    |-> IF gi.st.messages[k].type = "human"
                                          THEN "human" ELSE "ai",
                              content |-> gi.st.messages[k].content]]]

\* a request as the handler sees it, with what it has done so far
Request(user_id, message, file, obj) ==
    [user_id |-> user_id, message |-> message, file |-> file, session |-> obj,
     pc |-> "start", fd |-> 0, overlapped |-> FALSE,
     read |-> <<>>, vlm_raised |-> FALSE, graph_invoked |-> FALSE,
     appended |-> <<>>, added |-> <<>>, stamp |-> 0,
     exc |-> <<>>, response |-> None, chat_history |-> <<>>]

InFlight(r) == r.pc \in {"image_await", "audio_await"}

Finished(r) == r.pc \in {"done", "raised"}

\* the position of the next append of a request text among all of them
NextStamp(rs) == 1 + Cardinality({i \in 1..Len(rs) : rs[i].stamp > 0})

\* the request finished on the text path
Completed(r, t, stamp) ==
    [r EXCEPT !.pc = "done", !.graph_invoked = TRUE,
              !.appended = t.appended, !.added = t.added,
              !.stamp = IF t.appended # <<>> THEN stamp ELSE 0,
              !.response = t.response, !.chat_history = t.chat_history]

InitServer ==
    /\ sessions = <<>>
    /\ objects = <<>>
    /\ reqs = <<>>
    /\ fs = [dir |-> [p \in TempPaths |-> <<>>], inodes |-> <<>>]

\* a request arrives and runs up to its first await: the session is looked
\* up or created, and with an upload the temp file is opened for writing;
\* without one the handler runs to its end
Arrive ==
    /\ Len(reqs) < MaxRequests
    /\ \E user_id \in Users, message \in ReqMessages, file \in ReqFiles,
          llm \in ServerRouterLlm, ext \in ServerExts :
         LET goc == GetOrCreate(sessions, objects, user_id)
             r   == Request(user_id, message, file, goc.session)
             path == TempPath(user_id, file)
             clash == {i \in 1..Len(reqs) :
                          InFlight(reqs[i]) /\ TempPath(reqs[i].user_id, reqs[i].file) = path}
         IN  /\ sessions' = goc.store
             /\ IF IsImage(file) \/ IsAudio(file)
                THEN LET o == FsOpen(fs, path)
                     IN  /\ fs' = o.fs
                         /\ objects' = goc.objects
                         /\ reqs' = Append(
                               [i \in 1..Len(reqs) |->
                                   IF i \in clash THEN [reqs[i] EXCEPT !.overlapped = TRUE]
                                   ELSE reqs[i]],
                               [r EXCEPT !.pc = IF IsImage(file) THEN "image_await"
                                                ELSE "audio_await",
                                         !.fd = o.fd,
                                         !.overlapped = clash # {}])
                ELSE LET t == TextAndGraph(goc.objects[goc.session], message, "en",
                                           llm, ext, "up")
                     IN  /\ objects' = [goc.objects EXCEPT ![goc.session] = t.session]
                         /\ reqs' = Append(reqs, Completed(r, t, NextStamp(reqs)))
                         /\ UNCHANGED fs

\* the image branch after await file.read(): write and close the temp file,
\* ask the vision model, remove the file, return with chat_history=[]
ImageResume ==
    \E i \in 1..Len(reqs), outcome \in VlmOutcomes :
        /\ reqs[i].pc = "image_await"
        /\ LET r    == reqs[i]
               path == TempPath(r.user_id, r.file)
               fs1  == FsWrite(fs, r.fd, r.file.bytes)
               v    == ask_vlm(fs1, path, outcome)
               ai_response == IF v.exc # <<>> THEN <<"Error calling VLM: ">> \o v.exc
                              ELSE <<Strip(v.answer)>>
               rm   == FsRemove(fs1, path)
           IN  /\ fs' = rm.fs
               /\ reqs' = [reqs EXCEPT ![i] =
                     IF rm.exc # <<>>
                     THEN [r EXCEPT !.pc = "raised", !.exc = rm.exc, !.read = v.read,
                                    !.vlm_raised = v.exc # <<>>]
                     ELSE [r EXCEPT !.pc = "done", !.read = v.read,
                                    !.vlm_raised = v.exc # <<>>,
                                    !.response = ai_response, !.chat_history = <<>>]]
        /\ UNCHANGED <<sessions, objects>>

\* the audio branch after await file.read(): write and close the temp file,
\* transcribe it, remove the file, then the text path with the transcript
\* as the message
AudioResume ==
    \E i \in 1..Len(reqs), llm \in ServerRouterLlm, ext \in ServerExts,
       nllb \in NllbStates :
        /\ reqs[i].pc = "audio_await"
        /\ LET r    == reqs[i]
               path == TempPath(r.user_id, r.file)
               fs1  == FsWrite(fs, r.fd, r.file.bytes)
               asr_result == audio_to_english_transcript(fs1, path)
               rm   == FsRemove(fs1, path)
               original_language ==
                   IF asr_result.detected_lang # "en" THEN asr_result.detected_lang
                   ELSE "en"
               t    == TextAndGraph(objects[r.session], asr_result.english_text,
                                    original_language, llm, ext, nllb)
           IN  IF asr_result.exc # <<>>
               THEN /\ fs' = fs1
                    /\ reqs' = [reqs EXCEPT ![i] =
                          [r EXCEPT !.pc = "raised", !.exc = asr_result.exc]]
                    /\ UNCHANGED objects
               ELSE /\ fs' = rm.fs
                    /\ objects' = [objects EXCEPT ![r.session] = t.session]
                    /\ reqs' = [reqs EXCEPT ![i] =
                          [Completed(r, t, NextStamp(reqs)) EXCEPT !.read = asr_result.read]]
        /\ UNCHANGED sessions

NextServer ==
    /\ \/ Arrive
       \/ ImageResume
       \/ AudioResume
    /\ UNCHANGED <<gvars, rqvars, pvars, rvars, lvars, tvars, nvars>>

-----------------------------------------------------------------------------
(* Specifications                                                          *)

Init ==
    /\ InitGraph /\ InitRouter /\ InitParser /\ InitRag
    /\ InitLocation
    /\ InitTiles
    /\ InitNllb
    /\ InitServer

Next == NextGraph /\ UNCHANGED <<rqvars, pvars, rvars, xvars>>

\* the graph, its router and its agents on one session
Spec == Init /\ [][Next]_vars

\* the keyword router on its own
SpecRouter == Init /\ [][NextRouter]_vars

\* PDFParser.parse
SpecParser == Init /\ [][NextParser]_vars

\* RAG.rag_query
SpecRag == Init /\ [][NextRag]_vars

\* the GPS store and get_user_location
SpecLocation == Init /\ [][NextLocation]_vars

\* the satellite tile grid
SpecTiles == Init /\ [][NextTiles]_vars

\* the NLLB translate functions and their retry loop
SpecNllb == Init /\ [][NextNllb]_vars

\* the server: its session store and chat_dynamic requests in flight
SpecServer == Init /\ [][NextServer]_vars

-----------------------------------------------------------------------------
(* Properties                                                              *)

DomainAgents == {"CropResearch", "MarketAgent", "WeatherAgent", "PolicyAgent"}

\* C1: in one invocation of the compiled graph route_query runs exactly
\* once, then exactly the agent node named by `next` runs once, then the
\* invocation ends; the `next` route_query produced is always a key of the
\* conditional-edge map, so the invocation never stalls at the router.
C1_OneRouteThenOneAgent ==
    /\ pc = "route_query" => ran = <<>>
    /\ pc = "edge" =>
          /\ ran = <<"route_query">>
          /\ session.next \in DOMAIN EdgeMap(variant)
    /\ pc \in AgentNames => ran = <<"route_query">> /\ pc = session.next
    /\ pc = "END" => ran = <<"route_query", session.next>>

\* C1 witness: an invocation that ended after the router and one agent
C1_Witness ==
    /\ pc = "END"
    /\ ran = <<"route_query", "MarketAgent">>
    /\ turns = MaxTurns

\* the text of the last message as the keyword router reads it
RqLast == Lower(Last(rq_messages).content)

\* C2: the keyword router is a total decision list over the lower-cased
\* last message: CropResearch if a crop keyword occurs as a substring,
\* otherwise MarketAgent if a market keyword occurs, otherwise WeatherAgent
\* if a weather keyword occurs, otherwise PolicyAgent; PolicyAgent also for
\* a session without messages; the result is one of these four names.
C2_KeywordDecisionList ==
    rq_return.next # "None" =>
      /\ rq_return.next \in DomainAgents
      /\ rq_messages = <<>> => rq_return.next = "PolicyAgent"
      /\ rq_messages # <<>> =>
           LET crop    == \E k \in 1..Len(CropWords) : IsSubstring(CropWords[k], RqLast)
               market  == \E k \in 1..Len(MarketWords) : IsSubstring(MarketWords[k], RqLast)
               weather == \E k \in 1..Len(WeatherWords) : IsSubstring(WeatherWords[k], RqLast)
           IN  /\ (rq_return.next = "CropResearch") <=> crop
               /\ (rq_return.next = "MarketAgent") <=> (~crop /\ market)
               /\ (rq_return.next = "WeatherAgent") <=> (~crop /\ ~market /\ weather)
               /\ (rq_return.next = "PolicyAgent") <=> (~crop /\ ~market /\ ~weather)

\* C2 witness: a text with an upper-case market keyword and a crop keyword
\* after it is routed to CropResearch
C2_Witness ==
    /\ rq_messages # <<>>
    /\ Last(rq_messages).content = <<"S","E","L","L"," ","c","r","o","p">>
    /\ rq_return.next = "CropResearch"

\* C3: the LLM router always yields `next` among the five agent names:
\* FallbackAgent without an LLM call when the session has no messages,
\* FallbackAgent when the routing LLM call raises, and FallbackAgent when
\* the stripped reply is not exactly one of the five names (else that name).
C3_LlmRouterFallback ==
    (pc = "edge" /\ variant = "llm") =>
      /\ session.next \in AgentNames
      /\ route.messages = <<>> =>
            session.next = "FallbackAgent" /\ ~route.llm_called
      /\ route.messages # <<>> =>
            /\ route.llm_called
            /\ route.llm.raises => session.next = "FallbackAgent"
            /\ ~route.llm.raises =>
                 session.next = IF route.llm.reply.core \in AgentNames
                                THEN route.llm.reply.core
                                ELSE "FallbackAgent"

\* C3 witness: a reply with whitespace around an agent name is routed there
C3_Witness ==
    /\ pc = "edge" /\ variant = "llm"
    /\ route.llm_called /\ ~route.llm.raises
    /\ route.llm.reply = Reply(1, "MarketAgent", 1)
    /\ session.next = "MarketAgent"

\* the collaborator calls of the finished agent run, by name
Ops == [i \in 1..Len(run.calls) |-> run.calls[i].op]

\* the retrieval pipeline ran to its end before call i
RetrievalBefore(i) ==
    \E a, b, c, d \in 1..Len(run.calls) :
        /\ a < b /\ b < c /\ c < d /\ d < i
        /\ Ops[a] = "RAG" /\ Ops[b] = "create_db"
        /\ Ops[c] = "create_retriever" /\ Ops[d] = "rag_query"

\* C4 as claimed: every domain agent (crop, market, weather, policy) runs
\* the retrieval pipeline during a run that returns, before its first
\* direct language-model call.
C4_EveryAgentRetrieves ==
    (pc = "END" /\ run.agent \in DomainAgents /\ run.exc = <<>>) =>
      /\ \E d \in 1..Len(run.calls) : Ops[d] = "rag_query"
      /\ \A i \in 1..Len(run.calls) : Ops[i] = "llm" => RetrievalBefore(i)

\* C4 amended: the crop, market and policy agents run the retrieval
\* pipeline (RAG construction, index build, retriever, rag_query) before
\* their first direct language-model call, and every run of theirs that
\* returns has run it; the weather agent runs no retrieval and calls no
\* language model.
C4_LlmAgentsRetrieveFirst ==
    pc = "END" =>
      /\ run.agent \in {"CropResearch", "MarketAgent", "PolicyAgent"} =>
           /\ \A i \in 1..Len(run.calls) : Ops[i] = "llm" => RetrievalBefore(i)
           /\ run.exc = <<>> => \E d \in 1..Len(run.calls) : Ops[d] = "rag_query"
      /\ run.agent = "WeatherAgent" =>
           \A i \in 1..Len(run.calls) :
              Ops[i] \notin {"RAG", "create_db", "create_retriever", "rag_query", "llm"}

\* C4 witness: a market run that returned, with retrieval and both LLM calls
C4_Witness ==
    /\ pc = "END" /\ run.agent = "MarketAgent" /\ run.exc = <<>>
    /\ Ops = <<"tavily", "RAG", "create_db", "create_retriever", "rag_query", "llm", "llm">>

\* C8 as claimed: the messages an agent node (crop, market, weather,
\* policy) returns are the messages it received followed by exactly one
\* new AI message, whether the agent succeeds or fails.
C8_NodeAppendsOneAIMessage ==
    (pc = "END" /\ run.agent \in DomainAgents) =>
      /\ Len(result.messages) = Len(run.pre.messages) + 1
      /\ SubSeq(result.messages, 1, Len(run.pre.messages)) = run.pre.messages
      /\ Last(result.messages).type = "ai"

\* the query the weather agent reads from the session it was given
WeatherQuery ==
    IF run.pre.messages # <<>> THEN Last(run.pre.messages).content
    ELSE <<"Weather report">>

\* C9 as claimed: on every return path of get_weather_data (location lookup
\* error, weather fetch failure, success) the returned session has gained a
\* qa_pairs entry for the user query, one 'ai' chat_history entry and one AI
\* message.  (The token tracker is left out of the formula: the agent never
\* touches it.)
C9_WeatherUpdatesSession ==
    (pc = "END" /\ run.agent = "WeatherAgent" /\ run.exc = <<>>) =>
      /\ Len(run.st.messages) = Len(run.pre.messages) + 1
      /\ Last(run.st.messages).type = "ai"
      /\ Len(run.st.chat_history) = Len(run.pre.chat_history) + 1
      /\ Last(run.st.chat_history) = Messages("ai", Last(run.st.messages).content)
      /\ WeatherQuery \in DOMAIN run.st.qa_pairs
      /\ run.st.qa_pairs[WeatherQuery].answer1 = Last(run.st.messages).content

\* the query the market agent reads from the session it was given
MarketQuery ==
    IF run.pre.messages # <<>> THEN Last(run.pre.messages).content
    ELSE <<"Market analysis">>

\* the chat_history entries a market run adds before the given step raises
MarketStepsBefore(fail) ==
    CASE fail = "tavily" -> 0
      [] fail \in RagFails -> 1
      [] fail = "llm1" -> 2
      [] fail = "llm2" -> 3
      [] OTHER -> 4

\* C10: when get_market_data returns, chat_history has gained exactly the
\* four entries search, rag, ai_draft, ai in this order, messages has gained
\* exactly one AI message carrying the final answer, and qa_pairs[query]
\* holds the final answer as answer1 and the draft as answer2; when a step
\* raises, the entries appended by the earlier steps are in chat_history.
C10_MarketUpdateOrder ==
    (pc = "END" /\ run.agent = "MarketAgent") =>
      LET gained == SubSeq(run.st.chat_history, Len(run.pre.chat_history) + 1,
                           Len(run.st.chat_history))
          types  == [i \in 1..Len(gained) |-> gained[i].type]
          k      == MarketStepsBefore(run.ext.fail)
      IN  /\ SubSeq(run.st.chat_history, 1, Len(run.pre.chat_history))
                = run.pre.chat_history
          /\ types = SubSeq(<<"search", "rag", "ai_draft", "ai">>, 1, k)
          /\ run.exc = <<>> <=> k = 4
          /\ run.exc = <<>> =>
               /\ gained[3].content = run.ext.draft.content
               /\ gained[4].content = run.ext.final.content
               /\ run.st.messages
                    = Append(run.pre.messages, AIMessage(run.ext.final.content))
               /\ MarketQuery \in DOMAIN run.st.qa_pairs
               /\ run.st.qa_pairs[MarketQuery].answer1 = run.ext.final.content
               /\ run.st.qa_pairs[MarketQuery].answer2 = run.ext.draft.content
          /\ run.exc # <<>> =>
               /\ run.st.messages = run.pre.messages
               /\ run.st.qa_pairs = run.pre.qa_pairs

\* C10 witness: a market run that returned with a final answer that differs
\* from the draft
C10_Witness ==
    /\ pc = "END" /\ run.agent = "MarketAgent" /\ run.exc = <<>>
    /\ run.ext.final.content # run.ext.draft.content
    /\ Len(run.pre.chat_history) > 0

\* the segment parse appends for page k (1-based) of the opened document
ExpectedSegment(k) ==
    IF p_doc[k].text.core >= OcrThreshold THEN [kind |-> "direct", page |-> k]
    ELSE IF p_doc[k].ocr = "raise" THEN [kind |-> "[OCR ERROR ON PAGE n]", page |-> k]
    ELSE [kind |-> "ocr", page |-> k]

\* C5: parse runs OCR on a page if and only if the directly extracted text,
\* stripped of whitespace, has fewer than 50 characters; a page with 50 or
\* more stripped characters contributes its directly extracted text and
\* never triggers OCR.
C5_OcrIffShortStrippedText ==
    p_pc \in {"loop", "parsed"} =>
      /\ Len(full_text) = page_num
      /\ \A k \in 1..Len(full_text) :
           /\ (\E j \in 1..Len(ocr_calls) : ocr_calls[j] = k)
                 <=> p_doc[k].text.core < OcrThreshold
           /\ p_doc[k].text.core >= OcrThreshold
                 => full_text[k] = [kind |-> "direct", page |-> k]
      /\ \A j \in 1..Len(ocr_calls) : ocr_calls[j] \in 1..Len(full_text)

\* C5 witness: a parsed document with a page of 49 characters inside
\* whitespace (50 or more in all) that went through OCR and a page of
\* exactly 50 stripped characters that did not
C5_Witness ==
    /\ p_pc = "parsed"
    /\ \E k \in 1..Len(p_doc) :
          /\ p_doc[k].text.core = OcrThreshold - 1
          /\ TextLen(p_doc[k].text) >= OcrThreshold
          /\ full_text[k].kind = "ocr"
    /\ \E k \in 1..Len(p_doc) :
          /\ p_doc[k].text.core = OcrThreshold
          /\ full_text[k].kind = "direct"

\* C6: after a successful parse of an N-page document the extracted text is
\* exactly N segments in page order with a blank line between neighbours;
\* an OCR failure on page k makes segment k the placeholder
\* '[OCR ERROR ON PAGE k]' (1-based) and every other page is still there.
C6_OneSegmentPerPage ==
    p_pc = "parsed" =>
      LET N == Len(p_doc)
      IN  /\ has_parsed
          /\ Len(extracted_text) = (IF N = 0 THEN 0 ELSE 2 * N - 1)
          /\ \A k \in 1..N : extracted_text[2 * k - 1] = ExpectedSegment(k)
          /\ \A k \in 1..(N - 1) : extracted_text[2 * k] = BlankLine

\* C6 witness: OCR failed on the first page and the second page is there
C6_Witness ==
    /\ p_pc = "parsed"
    /\ Len(p_doc) >= 2
    /\ p_doc[1].ocr = "raise"
    /\ extracted_text[1] = [kind |-> "[OCR ERROR ON PAGE n]", page |-> 1]
    /\ extracted_text[3].kind = "direct"

\* C7: rag_query builds the context from the retrieved nodes in retrieval
\* order, one '[Document i]' part per node numbered 1..k without gaps and
\* joined by blank lines, returns one source_documents entry per node in
\* the same order, and calls the LLM with the query also when nothing was
\* retrieved (the context is then empty).
C7_ContextInRetrievalOrder ==
    rag_in.outcome = "returned" =>
      LET k      == Len(rag_in.retrieved)
          prompt == rag_llm[1][1].content
          ctx    == prompt.context
      IN  /\ Len(rag_llm) = 1
          /\ Len(rag_llm[1]) = 1
          /\ prompt.query_text = rag_in.query
          /\ rag_out.query = rag_in.query
          /\ Len(ctx) = (IF k = 0 THEN 0 ELSE 2 * k - 1)
          /\ \A i \in 1..k :
               /\ ctx[2 * i - 1].label = "[Document n]"
               /\ ctx[2 * i - 1].n = i
               /\ ctx[2 * i - 1].text = rag_in.retrieved[i].text
          /\ \A i \in 1..(k - 1) : ctx[2 * i] = BlankLine
          /\ Len(rag_out.source_documents) = k
          /\ \A i \in 1..k :
               /\ rag_out.source_documents[i].page_content = rag_in.retrieved[i].text
               /\ rag_out.source_documents[i].metadata = rag_in.retrieved[i].metadata

\* C7 witness: a call that retrieved different nodes and returned
C7_Witness ==
    /\ rag_in.outcome = "returned"
    /\ Len(rag_in.retrieved) >= 2
    /\ rag_in.retrieved[1].text # rag_in.retrieved[2].text
    /\ Len(rag_out.source_documents) >= 2

-----------------------------------------------------------------------------
(* The refine step of the market agent                                     *)

\* the message lists of the direct language-model calls of the run, in order
LlmCalls == SelectSeq(run.calls, LAMBDA c : c.op = "llm")

\* the text of the human message of the refine (second) call of the run
RefinePrompt == LlmCalls[2].input[2].content

\* C11 as claimed: the prompt of the market agent's refine call contains the
\* Tavily search results, the RAG evidence and the first-pass draft.
C11_RefinePromptBlendsEvidence ==
    (pc = "END" /\ run.agent = "MarketAgent" /\ Len(LlmCalls) >= 2) =>
      /\ IsSubstring(JsonDumps(run.ext.tavily), RefinePrompt)
      /\ IsSubstring(run.ext.rag, RefinePrompt)
      /\ IsSubstring(run.ext.draft.content, RefinePrompt)

-----------------------------------------------------------------------------
(* get_user_location                                                       *)

\* the latest get_user_location call came after a set_gps_location call: it
\* returned source 'gps' with the coordinates of the most recent such call
\* and sent no request to the IP service
GpsPreferred ==
    (loc_return.called /\ loc_return.gps_before # <<>>) =>
      /\ loc_return.exc = <<>>
      /\ "source" \in DOMAIN loc_return.ret
      /\ loc_return.ret.source = "gps"
      /\ <<loc_return.ret.latitude, loc_return.ret.longitude>>
           = SubSeq(Last(loc_return.gps_before), 1, 2)
      /\ ~loc_return.ip_lookup

\* the latest call returned the IP-based location or a dict with 'error'
ReturnedIpOrError ==
    /\ loc_return.exc = <<>>
    /\ \/ "source" \in DOMAIN loc_return.ret /\ loc_return.ret.source = "ip"
       \/ "error" \in DOMAIN loc_return.ret

-----------------------------------------------------------------------------
(* The tile grid                                                           *)

\* C13 as claimed: get_google_satellite_tile_urls(lat, lon, zoom, n) gives
\* exactly n**2 tiles with pairwise distinct (dx, dy) positions centred on
\* the tile that contains (lat, lon), which is the number of tiles
\* get_google_satellite_imagery announces and downloads.
C13_GridHasNSquaredTiles ==
    tile_in.called =>
      LET n      == tile_in.tile_grid
          tiles  == tile_out.tiles
          center == deg2num(tile_in.lat, tile_in.lon, tile_in.zoom)
      IN  /\ Len(tiles) = n ^ 2
          /\ \A i, j \in 1..Len(tiles) : i # j => tiles[i].pos # tiles[j].pos
          /\ \A i \in 1..Len(tiles) :
               /\ tiles[i].x = center.xtile + tiles[i].pos[1]
               /\ tiles[i].y = center.ytile + tiles[i].pos[2]
               /\ \E j \in 1..Len(tiles) :
                    tiles[j].pos = <<-tiles[i].pos[1], -tiles[i].pos[2]>>
          /\ tile_out.announced = n ^ 2
          /\ tile_out.submitted = tile_out.announced

-----------------------------------------------------------------------------
(* Exceptions raised by an agent                                           *)

AllAgents == DomainAgents \cup {"FallbackAgent"}

\* C14: no agent node propagates an exception of its agent: when the agent
\* raises, the node returns the response '<AgentName> error: <message>' and
\* messages that are the session's messages followed by exactly one AI
\* message carrying that text, and the invocation is at END with a response.
C14_NodeCatchesAgentError ==
    /\ (ran # <<>> /\ Last(ran) \in AllAgents) => (pc = "END" /\ result.response # None)
    /\ (pc = "END" /\ run.exc # <<>>) =>
         LET text == <<run.agent, " error: ">> \o run.exc
         IN  /\ run.agent \in AllAgents
             /\ result.response = text
             /\ result.messages = run.st.messages \o <<AIMessage(text)>>
             /\ \A i \in 1..Len(run.st.messages) :
                    run.st.messages[i].content # text

\* an agent raised at its refine call, after earlier steps had updated the
\* session, and one raised before any step
C14_Witness ==
    /\ pc = "END" /\ run.exc # <<>>
    /\ turns = MaxTurns
    /\ run.agent \in {"MarketAgent", "FallbackAgent"}
    /\ run.ext.fail \in {"llm2", "llm1"}
    /\ Len(run.pre.messages) > 1

-----------------------------------------------------------------------------
(* The token tracker                                                       *)

LlmAgents == {"CropResearch", "MarketAgent", "PolicyAgent"}

\* the tracker is as constructed (all three counters unset), or all three
\* are set and net_tokens is the sum of the other two
TrackerConsistent(tt) ==
    \/ tt = TokenTracker
    \/ /\ tt.net_input_tokens # <<>> /\ tt.net_output_tokens # <<>>
       /\ tt.net_tokens = <<tt.net_input_tokens[1] + tt.net_output_tokens[1]>>

\* C15: on a session that crop, market and policy runs have worked on, the
\* tracker has net_tokens = net_input_tokens + net_output_tokens, no counter
\* ever decreases, and each successful run adds to net_input_tokens and
\* net_output_tokens exactly the input and output token counts of its two
\* direct LLM calls (draft and refine), counting from 0 when unset.
C15_TokenTrackerSums ==
    /\ TrackerConsistent(session.token_tracker)
    /\ pc = "END" =>
         LET pre  == run.pre.token_tracker
             post == run.st.token_tracker
         IN  /\ OrZero(post.net_input_tokens) >= OrZero(pre.net_input_tokens)
             /\ OrZero(post.net_output_tokens) >= OrZero(pre.net_output_tokens)
             /\ OrZero(post.net_tokens) >= OrZero(pre.net_tokens)
             /\ (run.agent \in LlmAgents /\ run.exc = <<>>) =>
                  /\ post.net_input_tokens =
                       <<OrZero(pre.net_input_tokens) + run.ext.draft.input_tokens
                           + run.ext.final.input_tokens>>
                  /\ post.net_output_tokens =
                       <<OrZero(pre.net_output_tokens) + run.ext.draft.output_tokens
                           + run.ext.final.output_tokens>>

\* a second successful run on a tracker already counting, both of whose LLM
\* calls reported tokens
C15_Witness ==
    /\ pc = "END" /\ run.agent \in LlmAgents /\ run.exc = <<>>
    /\ run.pre.token_tracker.net_tokens # <<>>
    /\ OrZero(run.pre.token_tracker.net_tokens) > 0
    /\ run.ext.draft.input_tokens > 0
    /\ run.ext.final.output_tokens > 0

-----------------------------------------------------------------------------
(* The retry loop of the NLLB translate functions                          *)

Requests == SelectSeq(nl_log, LAMBDA e : e.ev = "request")

FailedBefore(i) ==
    Len(SelectSeq(SubSeq(nl_log, 1, i - 1), LAMBDA e : e.ev = "request" /\ ~e.ok))

\* C18: either translate function performs at most retries+1 requests, stops
\* at the first request that succeeds, waits 1.5 s times the attempt number
\* only between a failed attempt and the next one and never after the last,
\* never raises, and returns the empty string when every attempt fails.
C18_BoundedRetries ==
    /\ Len(Requests) <= nl_call.retries + 1
    /\ nl_call.pc \in {"idle", "loop", "returned"}
    /\ \A i \in 1..Len(nl_log) :
         /\ (nl_log[i].ev = "request" /\ nl_log[i].ok) =>
                (i = Len(nl_log) /\ nl_call.pc = "returned")
         /\ nl_log[i].ev = "sleep" =>
              /\ i > 1 /\ nl_log[i - 1].ev = "request" /\ ~nl_log[i - 1].ok
              /\ nl_log[i].tenths = SleepTenths * FailedBefore(i)
              /\ FailedBefore(i) <= nl_call.retries
              /\ i < Len(nl_log) => nl_log[i + 1].ev = "request"
         /\ (nl_log[i].ev = "request" /\ i > 1) =>
              (nl_log[i - 1].ev = "sleep")
    /\ nl_call.pc = "returned" =>
         /\ nl_return # None
         /\ Last(nl_log).ev = "request"
         /\ (\A i \in 1..Len(Requests) : ~Requests[i].ok) =>
              (nl_return = <<"">> /\ Len(Requests) = nl_call.retries + 1)
    /\ (nl_call.pc = "loop" /\ nl_log # <<>>) => Last(nl_log).ev = "sleep"

\* every attempt of a call with two retries failed
C18_Witness ==
    /\ nl_call.pc = "returned"
    /\ nl_call.retries = 2
    /\ Len(Requests) = 3
    /\ nl_return = <<"">>
    /\ ~Last(nl_log).ok

-----------------------------------------------------------------------------
(* qa_pairs                                                                *)

\* the text an agent takes as its query when the session has no message
DefaultQuery(agent) ==
    CASE agent = "CropResearch" -> <<"Get crop data">>
      [] agent = "MarketAgent"  -> <<"Market analysis">>
      [] agent = "PolicyAgent"  -> <<"Policy query">>
      [] OTHER                  -> <<"Weather report">>

\* the query of the run: the content of the last message of the session
RunQuery ==
    IF run.pre.messages # <<>> THEN Last(run.pre.messages).content
    ELSE DefaultQuery(run.agent)

\* the run returned an answer: it did not raise and, for the weather agent,
\* the location was determined
SuccessfulRun ==
    /\ pc = "END" /\ run.agent \in DomainAgents /\ run.exc = <<>>
    /\ run.agent = "WeatherAgent" => ~run.ext.location.has_error

\* the final answer of a successful run
FinalAnswer ==
    IF run.agent = "WeatherAgent" THEN Last(run.st.chat_history).content
    ELSE run.ext.final.content

\* C20: qa_pairs is keyed by the query text: after a successful crop,
\* market, weather or policy run qa_pairs[query] holds the run's final answer
\* as answer1; a run with a query text already present replaces that entry
\* and adds none, so a run adds at most the one key of its query; the entries
\* of other queries are unchanged; no other run changes qa_pairs.
C20_QaPairsKeyedByQuery ==
    /\ \A k \in DOMAIN session.qa_pairs : session.qa_pairs[k].query = k
    /\ pc = "END" =>
         IF SuccessfulRun
         THEN /\ DOMAIN run.st.qa_pairs = DOMAIN run.pre.qa_pairs \cup {RunQuery}
              /\ run.st.qa_pairs[RunQuery].answer1 = FinalAnswer
              /\ \A k \in DOMAIN run.pre.qa_pairs :
                    k # RunQuery => run.st.qa_pairs[k] = run.pre.qa_pairs[k]
         ELSE run.st.qa_pairs = run.pre.qa_pairs

\* a run whose query text already had an entry, with another answer
C20_Witness ==
    /\ SuccessfulRun
    /\ RunQuery \in DOMAIN run.pre.qa_pairs
    /\ run.pre.qa_pairs[RunQuery].answer1 # FinalAnswer
    /\ Cardinality(DOMAIN run.st.qa_pairs) = 1

-----------------------------------------------------------------------------
(* The session store of the server                                         *)

\* the contents of the human messages of a list, in order
HumanTexts(msgs) ==
    LET h == SelectSeq(msgs, LAMBDA m : m.type = "human")
    IN  [k \in 1..Len(h) |-> h[k].content]

\* one Session per user_id: made by the user's first request, used by every
\* later one, and the store entry never removed or replaced
OneSessionPerUser ==
    /\ DOMAIN sessions = {reqs[i].user_id : i \in 1..Len(reqs)}
    /\ Len(objects) = Cardinality(DOMAIN sessions)
    /\ \A i \in 1..Len(reqs) : reqs[i].session = sessions[reqs[i].user_id]
    /\ \A u, v \in DOMAIN sessions : u # v => sessions[u] # sessions[v]

\* the message texts of the finished requests of a user, in request order
RequestTexts(u) ==
    LET mine == SelectSeq(reqs, LAMBDA r : r.user_id = u /\ Finished(r)
                                            /\ r.message # None)
    IN  [k \in 1..Len(mine) |-> mine[k].message]

\* C16 as claimed: one Session per user_id, never removed or replaced, and
\* the text messages of the successive requests of a user are appended to
\* that Session's messages as human messages in request order.
C16_SessionPerUserAllTexts ==
    /\ OneSessionPerUser
    /\ \A u \in DOMAIN sessions :
         HumanTexts(objects[sessions[u]].messages) = RequestTexts(u)

\* the text a finished request appends: none with an image, the transcript
\* with an audio file (whatever message came with it), else the message;
\* an empty text is not appended
TextToAppend(r) ==
    LET t == IF IsImage(r.file) \/ r.pc = "raised" THEN <<>>
             ELSE IF IsAudio(r.file) THEN Transcribe(r.read[1]).english_text
             ELSE IF r.message = None THEN <<>>
             ELSE r.message
    IN  IF t = <<>> THEN <<>> ELSE <<t>>

\* the texts the requests of a user appended, in the order of the appends
AppendedTexts(u) ==
    LET n    == Cardinality({i \in 1..Len(reqs) : reqs[i].stamp > 0})
        by   == [k \in 1..n |-> reqs[CHOOSE i \in 1..Len(reqs) : reqs[i].stamp = k]]
        mine == SelectSeq(by, LAMBDA r : r.user_id = u)
    IN  [k \in 1..Len(mine) |-> mine[k].appended[1]]

\* C16, amended: one Session per user_id, never removed or replaced; a
\* request that carries an image appends nothing, every other request that
\* returns appends its text when it is not empty - the transcript when it
\* carries an audio file, else the message - as one human message; the
\* human messages of the Session are these texts in the order of the
\* appends, which is the request order except that an audio request in
\* flight may be overtaken.
C16_SessionPerUserTextPath ==
    /\ OneSessionPerUser
    /\ \A i \in 1..Len(reqs) : Finished(reqs[i]) => reqs[i].appended = TextToAppend(reqs[i])
    /\ \A u \in DOMAIN sessions :
         HumanTexts(objects[sessions[u]].messages) = AppendedTexts(u)
    /\ \A i, j \in 1..Len(reqs) :
         (i < j /\ reqs[i].stamp > reqs[j].stamp /\ reqs[j].stamp > 0)
            => IsAudio(reqs[i].file)

\* two requests of one user have appended their texts to the one Session,
\* the first of them a transcript
C16_Witness ==
    /\ Len(reqs) = 2
    /\ reqs[1].user_id = reqs[2].user_id
    /\ reqs[1].stamp = 1 /\ reqs[2].stamp = 2
    /\ IsAudio(reqs[1].file)
    /\ Len(HumanTexts(objects[sessions[reqs[1].user_id]].messages)) = 2

-----------------------------------------------------------------------------
(* Requests that carry an image                                            *)

CarriesImage(r) == r.file.content_type = "image/png"

VlmErrorText(r) == r.response # None /\ r.response[1] = "Error calling VLM: "

-----------------------------------------------------------------------------
(* Requests in flight that share a temp file                               *)

\* C19 as claimed: two requests in flight at the same time with the same
\* user_id and upload filename do not interfere: the vision or transcription
\* call of each reads exactly the bytes that request uploaded, and neither
\* fails because the other wrote to or removed the shared temp file.
C19_NoTempFileInterference ==
    \A i \in 1..Len(reqs) :
        (Finished(reqs[i]) /\ reqs[i].overlapped) =>
          /\ reqs[i].pc = "done"
          /\ reqs[i].read = <<reqs[i].file.bytes>>

====
